---------------------------- MODULE Spec2Model ----------------------------
(***************************************************************************)
(* A model of the Stratum cache hierarchy: two Cache levels (L1 over L2)   *)
(* over MainMemory, each level with its own replacement policy object.     *)
(* One action is one call of Load or Store on the top level, with every    *)
(* nested call on the lower levels included.                               *)
(***************************************************************************)
EXTENDS Integers, Sequences, FiniteSets, TLC

(***************************************************************************)
(* Bounds of the model.                                                    *)
(***************************************************************************)
\* number of top-level calls in one run
MaxOps == 4
\* addresses are 0 .. MaxAddr
MaxAddr == 5
\* number of addresses main's loop runs through
MaxTrace == 4
\* number of lines of a trace file of well-formed lines
MaxLines == 4
\* number of lines of a trace file of lines of any kind
MaxAnyLines == 2
\* number of OnHit and OnFill calls made on policy objects on their own
MaxCalls == 4
\* the template arguments Sets, Ways and BlockSize tried are 1 .. MaxGeom
MaxGeom == 3
\* number of calls made on a cache of a tried geometry
MaxCfgOps == 2

(***************************************************************************)
(* The hierarchy: template arguments of Cache<Name, Next, Sets, Ways,      *)
(* BlockSize, ReplacePolicy, HitLatency>, one entry per cache level, top   *)
(* level first.  MainMemory is the level after the last cache level.       *)
(***************************************************************************)
Name == <<"L1", "L2", "MainMemory">>
Sets == <<1, 2>>
Ways == <<2, 1>>
BlockSize == <<2, 2>>
HitLatency == <<4, 1>>
latency_ == 100

NumLevels == Len(Sets)
Levels == 1..NumLevels
MemLevel == NumLevels + 1
Addrs == 0..MaxAddr
Policies == {"LRU", "FIFO", "Random"}

\* std::numeric_limits<uint64_t>::max(), the start value of the LRU scan;
\* the model's timestamps stay far below it
UINT64_MAX == 2147483647

VARIABLES
  sets_,       \* sets_[l][set][way]: the Line {valid, dirty, tag}
  policy_,     \* policy_[l]: the replacement policy object of level l
  hits_,       \* hits_[l]
  misses_,     \* misses_[l]
  evictions_,  \* evictions_[l]
  trace_addrs, \* main: the addresses the loop has run through
  history,     \* main: the AccessResult of each of them
  lastOp,      \* the last top-level call: [type, addr], or "none"
  res,         \* the AccessResult the last top-level call returned
  calls,       \* the calls made on lower levels during the last top-level call
  fills,       \* the Fill calls made during the last top-level call
  nops,        \* number of top-level calls so far
  touched,     \* touched[l][set]: the ways hit or filled, least recent first
  filled,      \* filled[l][set]: the ways filled, earliest fill first
  stored,      \* stored[l][set][way]: addresses stored to the line since its fill
  nfills,      \* nfills[l][set]: number of Fill calls on the set
  seen,        \* the AccessResults the top-level calls have returned
  hierarchy,   \* the level names handed to the aggregation, top level first
  stats_db,    \* stats_db[name]: the CacheStats {hits, misses, total_latency}
  agg_pos,     \* number of history entries the aggregation loop has been through
  diagnostics, \* what was printed on stderr
  report,      \* the rows of the results table that was printed
  pc,          \* where the program is
  file,        \* the trace file: whether it opens, and its lines
  ops,         \* the TraceOps ParseTraceFile returned
  prev,        \* the history of the previous run over the same trace file
  geometry,    \* the template arguments Sets, Ways, BlockSize of a Cache type
  nested_policy_ \* nested_policy_[l]: an LRUPolicy with per-set vectors, given the
               \* calls policy_[l] is given

aggvars == <<hierarchy, stats_db, agg_pos, diagnostics, report, pc>>
simvars == <<file, ops, prev>>
cfgvars == <<geometry>>
polvars == <<nested_policy_>>

vars == <<sets_, policy_, hits_, misses_, evictions_, trace_addrs, history,
          lastOp, res, calls, fills, nops, touched, filled, stored, nfills,
          seen, aggvars, simvars, cfgvars, polvars>>

(***************************************************************************)
(* Line and policy objects.                                                *)
(***************************************************************************)
Line == [valid |-> FALSE, dirty |-> FALSE, tag |-> 0]

LRUPolicy(sets, ways) ==
  [kind |-> "LRU", num_sets_ |-> sets, num_ways_ |-> ways,
   timestamps_ |-> [i \in 0..(sets * ways - 1) |-> 0],
   set_counters_ |-> [s \in 0..(sets - 1) |-> 0]]

FIFOPolicy(sets, ways) ==
  [kind |-> "FIFO", num_sets_ |-> sets, num_ways_ |-> ways,
   next_victim_ |-> [s \in 0..(sets - 1) |-> 0]]

RandomPolicy(sets, ways) ==
  [kind |-> "Random", num_sets_ |-> sets, num_ways_ |-> ways]

NewPolicy(kind, sets, ways) ==
  CASE kind = "LRU" -> LRUPolicy(sets, ways)
    [] kind = "FIFO" -> FIFOPolicy(sets, ways)
    [] kind = "Random" -> RandomPolicy(sets, ways)

\* LRUPolicy::OnHit: timestamps_[flat_idx] = ++set_counters_[set_idx]
LRUOnHit(p, set_idx, way_idx) ==
  LET flat_idx == (set_idx * p.num_ways_) + way_idx
      c == p.set_counters_[set_idx] + 1
  IN [p EXCEPT !.set_counters_[set_idx] = c, !.timestamps_[flat_idx] = c]

\* a fill that stamps the way with the next tick but leaves the counter
LRUOnFillSameTick(p, set_idx, way_idx) ==
  [p EXCEPT !.timestamps_[(set_idx * p.num_ways_) + way_idx] =
              p.set_counters_[set_idx] + 1]

\* LRUPolicy::OnFill calls OnHit
LRUOnFill(p, set_idx, way_idx) == LRUOnHit(p, set_idx, way_idx)

\* a scan that takes the last of the ways with the least timestamp
RECURSIVE LRUScanLastWins(_, _, _, _, _)
LRUScanLastWins(p, base_idx, way, victim_way, min_time) ==
  IF way >= p.num_ways_ THEN victim_way
  ELSE IF p.timestamps_[base_idx + way] <= min_time
       THEN LRUScanLastWins(p, base_idx, way + 1, way,
                            p.timestamps_[base_idx + way])
       ELSE LRUScanLastWins(p, base_idx, way + 1, victim_way, min_time)

\* the scan of LRUPolicy::GetVictim from way on, carrying (victim_way, min_time)
RECURSIVE LRUScan(_, _, _, _, _)
LRUScan(p, base_idx, way, victim_way, min_time) ==
  IF way >= p.num_ways_ THEN victim_way
  ELSE IF p.timestamps_[base_idx + way] < min_time
       THEN LRUScan(p, base_idx, way + 1, way, p.timestamps_[base_idx + way])
       ELSE LRUScan(p, base_idx, way + 1, victim_way, min_time)

LRUGetVictim(p, set_idx) ==
  LRUScan(p, set_idx * p.num_ways_, 0, 0, UINT64_MAX)

\* the LRUPolicy that keeps last_access_time_[set][way] in one vector per set
NestedLRUPolicy(sets, ways) ==
  [num_sets_ |-> sets, num_ways_ |-> ways,
   last_access_time_ |-> [s \in 0..(sets - 1) |-> [w \in 0..(ways - 1) |-> 0]],
   set_counters_ |-> [s \in 0..(sets - 1) |-> 0]]

\* its OnHit: last_access_time_[set_idx][way_idx] = ++set_counters_[set_idx]
NestedOnHit(p, set_idx, way_idx) ==
  LET c == p.set_counters_[set_idx] + 1
  IN [p EXCEPT !.set_counters_[set_idx] = c,
               !.last_access_time_[set_idx][way_idx] = c]

\* its OnFill, the same statement written out again
NestedOnFill(p, set_idx, way_idx) ==
  LET c == p.set_counters_[set_idx] + 1
  IN [p EXCEPT !.set_counters_[set_idx] = c,
               !.last_access_time_[set_idx][way_idx] = c]

\* a scan over the set's vector that takes the last of the least timestamps
RECURSIVE NestedScanLastWins(_, _, _, _, _)
NestedScanLastWins(p, set_idx, way_idx, victim_idx, min_time) ==
  IF way_idx >= p.num_ways_ THEN victim_idx
  ELSE IF p.last_access_time_[set_idx][way_idx] <= min_time
       THEN NestedScanLastWins(p, set_idx, way_idx + 1, way_idx,
                               p.last_access_time_[set_idx][way_idx])
       ELSE NestedScanLastWins(p, set_idx, way_idx + 1, victim_idx, min_time)

\* the scan of its GetVictim from way_idx on, carrying (victim_idx, min_time)
RECURSIVE NestedScan(_, _, _, _, _)
NestedScan(p, set_idx, way_idx, victim_idx, min_time) ==
  IF way_idx >= p.num_ways_ THEN victim_idx
  ELSE IF p.last_access_time_[set_idx][way_idx] < min_time
       THEN NestedScan(p, set_idx, way_idx + 1, way_idx,
                       p.last_access_time_[set_idx][way_idx])
       ELSE NestedScan(p, set_idx, way_idx + 1, victim_idx, min_time)

NestedGetVictim(p, set_idx) == NestedScan(p, set_idx, 0, 0, UINT64_MAX)

\* a FIFO whose pointer moves on hits as well
FIFOOnHitAdvances(p, set, way) ==
  [p EXCEPT !.next_victim_[set] = (p.next_victim_[set] + 1) % p.num_ways_]

\* FIFOPolicy::OnHit ignores hits
FIFOOnHit(p, set, way) == p

\* a pointer that stays where it is
FIFOOnFillStays(p, set, way) == p

\* FIFOPolicy::OnFill: next_victim_[set] = (next_victim_[set] + 1) % num_ways_
FIFOOnFill(p, set, way) ==
  [p EXCEPT !.next_victim_[set] = (p.next_victim_[set] + 1) % p.num_ways_]

FIFOGetVictim(p, set) == p.next_victim_[set]

\* a distribution over 1 .. num_ways_
RandomGetVictimFromOne(p, draw) == draw + 1

\* RandomPolicy::GetVictim: dist(search_rng_) with dist uniform over
\* 0 .. num_ways_ - 1 and search_rng_ seeded from std::random_device; draw is
\* what the generator yields, any value of that range
RandomGetVictim(p, draw) == draw

\* a policy that takes no note of hits
OnHitIgnored(p, set, way) == p

OnHit(p, set, way) ==
  CASE p.kind = "LRU" -> LRUOnHit(p, set, way)
    [] p.kind = "FIFO" -> FIFOOnHit(p, set, way)
    [] p.kind = "Random" -> p

OnFill(p, set, way) ==
  CASE p.kind = "LRU" -> LRUOnFill(p, set, way)
    [] p.kind = "FIFO" -> FIFOOnFill(p, set, way)
    [] p.kind = "Random" -> p

GetVictim(p, set, draw) ==
  CASE p.kind = "LRU" -> LRUGetVictim(p, set)
    [] p.kind = "FIFO" -> FIFOGetVictim(p, set)
    [] p.kind = "Random" -> RandomGetVictim(p, draw)

(***************************************************************************)
(* Address decomposition of a level.  The addresses of the model and what  *)
(* is computed from them stay far below 2^64, so uint64_t does not wrap.   *)
(***************************************************************************)
SetIdx(l, addr) == (addr \div BlockSize[l]) % Sets[l]
\* a tag taken from the address, not from its block number
TagOfUnblocked(l, addr) == addr \div Sets[l]

TagOf(l, addr) == (addr \div BlockSize[l]) \div Sets[l]
\* a write-back address that leaves out the block size
EvictAddrUnscaled(l, tag, set_idx) == tag * Sets[l] + set_idx

EvictAddr(l, tag, set_idx) == (tag * Sets[l] + set_idx) * BlockSize[l]

\* the tag-lookup loop of Load and Store: the first way of the set that is
\* valid and holds the tag, Ways[l] when there is none
\* a tag lookup that stops one way short of the last
RECURSIVE LookupShort(_, _, _, _)
LookupShort(lines, ways, tag, way_idx) ==
  IF way_idx >= ways - 1 THEN ways
  ELSE IF lines[way_idx].valid /\ lines[way_idx].tag = tag THEN way_idx
       ELSE LookupShort(lines, ways, tag, way_idx + 1)

\* a tag lookup that does not look at the valid bit
RECURSIVE LookupIgnoresValid(_, _, _, _)
LookupIgnoresValid(lines, ways, tag, way_idx) ==
  IF way_idx >= ways THEN ways
  ELSE IF lines[way_idx].tag = tag THEN way_idx
       ELSE LookupIgnoresValid(lines, ways, tag, way_idx + 1)

RECURSIVE LookupFrom(_, _, _, _)
LookupFrom(lines, ways, tag, way_idx) ==
  IF way_idx >= ways THEN ways
  ELSE IF lines[way_idx].valid /\ lines[way_idx].tag = tag THEN way_idx
       ELSE LookupFrom(lines, ways, tag, way_idx + 1)

Lookup(h, l, set_idx, tag) == LookupFrom(h.sets_[l][set_idx], Ways[l], tag, 0)

\* a first loop that runs from the last way down
RECURSIVE LastInvalidFrom(_, _, _)
LastInvalidFrom(lines, ways, way_idx) ==
  IF way_idx >= ways THEN ways
  ELSE IF ~lines[ways - 1 - way_idx].valid THEN ways - 1 - way_idx
       ELSE LastInvalidFrom(lines, ways, way_idx + 1)

\* the first loop of Fill: the first invalid way of the set, Ways[l] when
\* every way is valid
RECURSIVE FirstInvalidFrom(_, _, _)
FirstInvalidFrom(lines, ways, way_idx) ==
  IF way_idx >= ways THEN ways
  ELSE IF ~lines[way_idx].valid THEN way_idx
       ELSE FirstInvalidFrom(lines, ways, way_idx + 1)

(***************************************************************************)
(* The hierarchy as a value h: the fields of every level, the log of the   *)
(* calls and fills of the access under way, and rng[l], what the generator *)
(* of level l's RandomPolicy will yield during this access.                *)
(***************************************************************************)
\* a hit that is not counted
StatsHitUncounted(h, l) == h

StatsHit(h, l) == [h EXCEPT !.hits_[l] = @ + 1]
StatsMiss(h, l) == [h EXCEPT !.misses_[l] = @ + 1]

\* whether level l holds the block of addr (MainMemory holds every block)
Resident(lines_, l, addr) ==
  \/ l = MemLevel
  \/ /\ l \in Levels
     /\ \E w \in 0..(Ways[l] - 1) :
          /\ lines_[l][SetIdx(l, addr)][w].valid
          /\ lines_[l][SetIdx(l, addr)][w].tag = TagOf(l, addr)

\* record a call of Load or Store made on level l, and whether it will hit
LogCall(h, l, type, addr) ==
  [h EXCEPT !.calls = Append(@, [level |-> l, type |-> type, addr |-> addr,
                                 hit |-> Resident(h.sets_, l, addr)])]

\* way becomes the last of the sequence
Touch(seq, way) == Append(SelectSeq(seq, LAMBDA w : w # way), way)

\* record a hit on a line, a store to a line, a fill of a line
NoteHit(h, l, set_idx, way_idx) ==
  [h EXCEPT !.touched[l][set_idx] = Touch(@, way_idx)]

NoteStore(h, l, set_idx, way_idx, addr) ==
  [h EXCEPT !.stored[l][set_idx][way_idx] = @ \cup {addr}]

NoteFill(h, l, set_idx, way_idx, event) ==
  [h EXCEPT !.touched[l][set_idx] = Touch(@, way_idx),
            !.filled[l][set_idx] = Touch(@, way_idx),
            !.stored[l][set_idx][way_idx] = {},
            !.nfills[l][set_idx] = @ + 1,
            !.fills = Append(@, event)]

RECURSIVE Load(_, _, _)
RECURSIVE Store(_, _, _)
RECURSIVE Fill(_, _, _, _)

\* a write-back of every replaced line, written since its fill or not
NeedsWriteBackClean(victim) == victim.valid

\* Fill: if (victim.valid && victim.dirty)
NeedsWriteBack(victim) == victim.valid /\ victim.dirty

\* a Fill that asks the policy for a way even when the set has a free one
FreeWayNever(lines, ways) == ways

\* a first loop that takes the highest invalid way
FreeWayLast(lines, ways) == LastInvalidFrom(lines, ways, 0)

\* Fill: the way of the first invalid line, Ways when there is none
FreeWay(lines, ways) == FirstInvalidFrom(lines, ways, 0)

\* Cache::Fill on level l
Fill(h, l, set_idx, tag) ==
  LET lines == h.sets_[l][set_idx]
      free == FreeWay(lines, Ways[l])
      full == (free = Ways[l])
      draws == (h.policy_[l].kind = "Random")
      victim_way_idx ==
        IF full THEN GetVictim(h.policy_[l], set_idx, Head(h.rng[l])) ELSE free
      h1 == IF full /\ draws THEN [h EXCEPT !.rng[l] = Tail(@)] ELSE h
      victim == lines[victim_way_idx]
      writeback == full /\ NeedsWriteBack(victim)
      evict_addr == EvictAddr(l, victim.tag, set_idx)
      h2 == IF writeback
            THEN LET r == Store(LogCall(h1, l + 1, "Store", evict_addr),
                                l + 1, evict_addr)
                 IN [r.h EXCEPT !.evictions_[l] = @ + 1]
            ELSE h1
      h3 == [h2 EXCEPT
               !.sets_[l][set_idx][victim_way_idx] =
                  [valid |-> TRUE, dirty |-> FALSE, tag |-> tag],
               !.policy_[l] = OnFill(@, set_idx, victim_way_idx)]
  IN NoteFill(h3, l, set_idx, victim_way_idx,
        [level |-> l, set |-> set_idx, way |-> victim_way_idx, tag |-> tag,
         asked |-> full, before |-> lines, after |-> h3.sets_[l][set_idx],
         wroteback |-> writeback,
         evict_addr |-> IF writeback THEN evict_addr ELSE -1,
         touched |-> h.touched[l][set_idx], filled |-> h.filled[l][set_idx],
         stored |-> h.stored[l][set_idx][victim_way_idx],
         nth |-> h.nfills[l][set_idx] + 1, policy |-> h.policy_[l]])

\* a memory whose latency grows with the calls the access has made so far
MemAccessQueued(h, l) ==
  [h |-> h,
   res |-> [hit_level |-> Name[l], total_cycles |-> latency_ + Len(h.calls)]]

\* MainMemory::Load and MainMemory::Store: return {Name.value, latency_}
MemAccess(h, l) ==
  [h |-> h, res |-> [hit_level |-> Name[l], total_cycles |-> latency_]]

\* a miss path that sets the cycles to this level's latency
OverwriteCycles(result, l) == [result EXCEPT !.total_cycles = HitLatency[l]]

\* a miss path that hands the next level's result on as it is
ForgetCycles(result, l) == result

\* res.total_cycles += HitLatency
AddCycles(result, l) == [result EXCEPT !.total_cycles = @ + HitLatency[l]]

\* a load hit that also asks the next level for the block
LoadHitTouchesNext(h, l, set_idx, way_idx) ==
  LET a == EvictAddr(l, h.sets_[l][set_idx][way_idx].tag, set_idx)
      r == Load(LogCall(h, l + 1, "Load", a), l + 1, a)
  IN [h |-> [NoteHit(StatsHit(r.h, l), l, set_idx, way_idx) EXCEPT
               !.policy_[l] = OnHit(@, set_idx, way_idx)],
      res |-> [hit_level |-> Name[l], total_cycles |-> HitLatency[l]]]

\* a load hit that marks the line dirty
LoadHitDirties(h, l, set_idx, way_idx) ==
  [h |-> [NoteHit(StatsHit(h, l), l, set_idx, way_idx) EXCEPT
            !.policy_[l] = OnHit(@, set_idx, way_idx),
            !.sets_[l][set_idx][way_idx].dirty = TRUE],
   res |-> [hit_level |-> Name[l], total_cycles |-> HitLatency[l]]]

\* the hit branch of Cache::Load
LoadHit(h, l, set_idx, way_idx) ==
  [h |-> [NoteHit(StatsHit(h, l), l, set_idx, way_idx) EXCEPT
            !.policy_[l] = OnHit(@, set_idx, way_idx)],
   res |-> [hit_level |-> Name[l], total_cycles |-> HitLatency[l]]]

\* a miss branch that asks the next level for the block a second time
LoadMissRetries(h, l, set_idx, tag, addr) ==
  LET r0 == Load(LogCall(StatsMiss(h, l), l + 1, "Load", addr), l + 1, addr)
      r == Load(LogCall(r0.h, l + 1, "Load", addr), l + 1, addr)
  IN [h |-> Fill(r.h, l, set_idx, tag), res |-> AddCycles(r.res, l)]

\* a miss branch that fills its line before it asks the next level
LoadMissFillsFirst(h, l, set_idx, tag, addr) ==
  LET hf == Fill(StatsMiss(h, l), l, set_idx, tag)
      r == Load(LogCall(hf, l + 1, "Load", addr), l + 1, addr)
  IN [h |-> r.h, res |-> AddCycles(r.res, l)]

\* the miss branch of Cache::Load
LoadMiss(h, l, set_idx, tag, addr) ==
  LET r == Load(LogCall(StatsMiss(h, l), l + 1, "Load", addr), l + 1, addr)
  IN [h |-> Fill(r.h, l, set_idx, tag), res |-> AddCycles(r.res, l)]

\* Cache::Load on a cache level, MainMemory::Load on the level below the last
Load(h, l, addr) ==
  IF l = MemLevel
  THEN MemAccess(h, l)
  ELSE
    LET set_idx == SetIdx(l, addr)
        tag == TagOf(l, addr)
        way_idx == Lookup(h, l, set_idx, tag)
    IN IF way_idx < Ways[l]
       THEN LoadHit(h, l, set_idx, way_idx)
       ELSE LoadMiss(h, l, set_idx, tag, addr)

\* a store hit that also writes the block through to the next level
StoreHitWriteThrough(h, l, set_idx, way_idx, addr) ==
  LET r == Store(LogCall(h, l + 1, "Store", addr), l + 1, addr)
  IN [h |-> [NoteStore(NoteHit(StatsHit(r.h, l), l, set_idx, way_idx),
                       l, set_idx, way_idx, addr) EXCEPT
               !.sets_[l][set_idx][way_idx].dirty = TRUE,
               !.policy_[l] = OnHit(@, set_idx, way_idx)],
      res |-> [hit_level |-> Name[l], total_cycles |-> HitLatency[l]]]

\* a store hit that writes around the line and gives it up
StoreHitInvalidates(h, l, set_idx, way_idx, addr) ==
  [h |-> [NoteHit(StatsHit(h, l), l, set_idx, way_idx) EXCEPT
            !.sets_[l][set_idx][way_idx].valid = FALSE,
            !.policy_[l] = OnHit(@, set_idx, way_idx)],
   res |-> [hit_level |-> Name[l], total_cycles |-> HitLatency[l]]]

\* the hit branch of Cache::Store
StoreHit(h, l, set_idx, way_idx, addr) ==
  [h |-> [NoteStore(NoteHit(StatsHit(h, l), l, set_idx, way_idx),
                    l, set_idx, way_idx, addr) EXCEPT
            !.sets_[l][set_idx][way_idx].dirty = TRUE,
            !.policy_[l] = OnHit(@, set_idx, way_idx)],
   res |-> [hit_level |-> Name[l], total_cycles |-> HitLatency[l]]]

\* a store miss that allocates the line and leaves it clean
StoreMissLeavesClean(h, l, set_idx, tag, addr) ==
  LET r == Load(LogCall(StatsMiss(h, l), l + 1, "Load", addr), l + 1, addr)
  IN [h |-> Fill(r.h, l, set_idx, tag), res |-> AddCycles(r.res, l)]

\* the miss branch of Cache::Store: write-allocate
StoreMiss(h, l, set_idx, tag, addr) ==
  LET r == Load(LogCall(StatsMiss(h, l), l + 1, "Load", addr), l + 1, addr)
      hf == Fill(r.h, l, set_idx, tag)
      w == Lookup(hf, l, set_idx, tag)
  IN [h |-> IF w < Ways[l]
            THEN [NoteStore(hf, l, set_idx, w, addr) EXCEPT
                    !.sets_[l][set_idx][w].dirty = TRUE]
            ELSE hf,
      res |-> AddCycles(r.res, l)]

\* Cache::Store on a cache level, MainMemory::Store on the level below the last
Store(h, l, addr) ==
  IF l = MemLevel
  THEN MemAccess(h, l)
  ELSE
    LET set_idx == SetIdx(l, addr)
        tag == TagOf(l, addr)
        way_idx == Lookup(h, l, set_idx, tag)
    IN IF way_idx < Ways[l]
       THEN StoreHit(h, l, set_idx, way_idx, addr)
       ELSE StoreMiss(h, l, set_idx, tag, addr)

(***************************************************************************)
(* The state machine.                                                      *)
(***************************************************************************)
\* the most Fill calls one top-level call makes on each level: one at L1, and
\* at L2 one for the fetched block and one for the written-back block
FillsPerCall == <<1, 2>>

\* what the generator of each level's RandomPolicy can yield during one
\* top-level call; the other policies have no generator
Rngs ==
  {rng \in [Levels -> UNION {[1..FillsPerCall[l] -> 0..(Ways[l] - 1)] :
                                l \in Levels}] :
     \A l \in Levels :
       /\ DOMAIN rng[l] = 1..FillsPerCall[l]
       /\ \A i \in 1..FillsPerCall[l] :
            /\ rng[l][i] < Ways[l]
            /\ policy_[l].kind # "Random" => rng[l][i] = 0}

Hier(rng) ==
  [sets_ |-> sets_, policy_ |-> policy_, hits_ |-> hits_, misses_ |-> misses_,
   evictions_ |-> evictions_, calls |-> <<>>, fills |-> <<>>, rng |-> rng,
   touched |-> touched, filled |-> filled, stored |-> stored,
   nfills |-> nfills]

Install(r, type, addr) ==
  /\ sets_' = r.h.sets_
  /\ policy_' = r.h.policy_
  /\ hits_' = r.h.hits_
  /\ misses_' = r.h.misses_
  /\ evictions_' = r.h.evictions_
  /\ calls' = r.h.calls
  /\ fills' = r.h.fills
  /\ res' = r.res
  /\ lastOp' = [type |-> type, addr |-> addr]
  /\ nops' = nops + 1
  /\ touched' = r.h.touched
  /\ filled' = r.h.filled
  /\ stored' = r.h.stored
  /\ nfills' = r.h.nfills
  /\ seen' = seen \cup {r.res}

NoRes == [hit_level |-> "", total_cycles |-> 0]
NoOp == [type |-> "none", addr |-> 0]

\* CacheStats, and stats_db before anything is counted: std::map makes an
\* entry of zeros for a name the first time the name is looked up
CacheStats == [hits |-> 0, misses |-> 0, total_latency |-> 0]
\* the lists of level names a caller can hand to the aggregation: the names
\* of the hierarchy, a list that leaves a level out, main's list with L3
Hierarchies ==
  {Name, <<"L1", "MainMemory">>, <<"L1", "L2">>,
   <<"L1", "L2", "L3", "MainMemory">>}
LevelNames ==
  UNION {{names[i] : i \in DOMAIN names} : names \in Hierarchies}
NoStats == [n \in LevelNames |-> CacheStats]

\* the template arguments of the top level
TopGeometry ==
  [Sets |-> Sets[1], Ways |-> Ways[1], BlockSize |-> BlockSize[1]]

\* the hierarchy after construction: every line invalid, every policy fresh;
\* as in main, the levels of one hierarchy use the same ReplacePolicy
Constructed ==
  /\ geometry = TopGeometry
  /\ nested_policy_ = [l \in Levels |-> NestedLRUPolicy(Sets[l], Ways[l])]
  /\ \E kind \in Policies :
       policy_ = [l \in Levels |-> NewPolicy(kind, Sets[l], Ways[l])]
  /\ sets_ = [l \in Levels |->
               [s \in 0..(Sets[l] - 1) |-> [w \in 0..(Ways[l] - 1) |-> Line]]]
  /\ hits_ = [l \in Levels |-> 0]
  /\ misses_ = [l \in Levels |-> 0]
  /\ evictions_ = [l \in Levels |-> 0]
  /\ touched = [l \in Levels |-> [s \in 0..(Sets[l] - 1) |-> <<>>]]
  /\ filled = [l \in Levels |-> [s \in 0..(Sets[l] - 1) |-> <<>>]]
  /\ stored = [l \in Levels |->
                [s \in 0..(Sets[l] - 1) |-> [w \in 0..(Ways[l] - 1) |-> {}]]]
  /\ nfills = [l \in Levels |-> [s \in 0..(Sets[l] - 1) |-> 0]]

\* no call made on the hierarchy yet
NoAccess ==
  /\ lastOp = NoOp
  /\ res = NoRes
  /\ calls = <<>>
  /\ fills = <<>>
  /\ nops = 0
  /\ seen = {}

\* nothing counted and nothing printed yet
NoOutput ==
  /\ stats_db = NoStats
  /\ agg_pos = 0
  /\ diagnostics = <<>>
  /\ report = <<>>

\* a trace file that cannot be opened, and no run made yet
Unavailable == [open |-> FALSE, lines |-> <<>>]
NoRun == [ran |-> FALSE, history |-> <<>>]
NoTrace ==
  /\ file = Unavailable
  /\ ops = <<>>
  /\ prev = NoRun

\* the state after construction, with main's list of level names
Init ==
  /\ Constructed
  /\ NoAccess
  /\ NoOutput
  /\ NoTrace
  /\ trace_addrs = <<>>
  /\ history = <<>>
  /\ hierarchy = Name
  /\ pc = "loop"

\* cache->Load(addr) on the top level
TopLoad ==
  /\ nops < MaxOps
  /\ \E addr \in Addrs, rng \in Rngs :
       Install(Load(Hier(rng), 1, addr), "Load", addr)
  /\ UNCHANGED <<trace_addrs, history, aggvars, simvars, cfgvars, polvars>>

\* cache->Store(addr) on the top level
TopStore ==
  /\ nops < MaxOps
  /\ \E addr \in Addrs, rng \in Rngs :
       Install(Store(Hier(rng), 1, addr), "Store", addr)
  /\ UNCHANGED <<trace_addrs, history, aggvars, simvars, cfgvars, polvars>>

Next == TopLoad \/ TopStore

\* the Cache under any sequence of Load and Store calls
Spec == Init /\ [][Next]_vars

\* one round of main's simulation loop: Load the next address of the trace
\* and push the result on the history
MainLoad ==
  /\ Len(history) < MaxTrace
  /\ \E addr \in Addrs, rng \in Rngs :
       LET r == Load(Hier(rng), 1, addr)
       IN /\ Install(r, "Load", addr)
          /\ history' = Append(history, r.res)
          /\ trace_addrs' = Append(trace_addrs, addr)
  /\ UNCHANGED <<aggvars, simvars, cfgvars, polvars>>

MainNext == MainLoad

\* main: a fresh hierarchy, then the simulation loop
MainSpec == Init /\ [][MainNext]_vars

(***************************************************************************)
(* The policy classes on their own: OnHit, OnFill and GetVictim called in  *)
(* any order, on any set and way, on the policy object of each level.      *)
(***************************************************************************)
\* the call that was made on a policy object, and what GetVictim returned
PolicyCall(type, l, set, way) ==
  [type |-> type, level |-> l, set |-> set, way |-> way]

\* policy.OnHit(set, way)
PolicyOnHit ==
  /\ nops < MaxCalls
  /\ \E l \in Levels :
       \E set \in 0..(Sets[l] - 1), way \in 0..(Ways[l] - 1) :
         /\ policy_' = [policy_ EXCEPT ![l] = OnHit(@, set, way)]
         /\ nested_policy_' = [nested_policy_ EXCEPT ![l] = NestedOnHit(@, set, way)]
         /\ lastOp' = PolicyCall("OnHit", l, set, way)
  /\ nops' = nops + 1
  /\ UNCHANGED <<sets_, hits_, misses_, evictions_, trace_addrs, history, res,
                 calls, fills, touched, filled, stored, nfills, seen, aggvars,
                 simvars, cfgvars>>

\* policy.OnFill(set, way)
PolicyOnFill ==
  /\ nops < MaxCalls
  /\ \E l \in Levels :
       \E set \in 0..(Sets[l] - 1), way \in 0..(Ways[l] - 1) :
         /\ policy_' = [policy_ EXCEPT ![l] = OnFill(@, set, way)]
         /\ nested_policy_' = [nested_policy_ EXCEPT ![l] = NestedOnFill(@, set, way)]
         /\ lastOp' = PolicyCall("OnFill", l, set, way)
  /\ nops' = nops + 1
  /\ UNCHANGED <<sets_, hits_, misses_, evictions_, trace_addrs, history, res,
                 calls, fills, touched, filled, stored, nfills, seen, aggvars,
                 simvars, cfgvars>>

\* policy.GetVictim(set), a const member function; RandomPolicy's generator
\* yields any way of the set
PolicyGetVictim ==
  /\ \E l \in Levels :
       \E set \in 0..(Sets[l] - 1), draw \in 0..(Ways[l] - 1) :
         lastOp' = PolicyCall("GetVictim", l, set,
                              GetVictim(policy_[l], set, draw))
  /\ UNCHANGED <<sets_, policy_, hits_, misses_, evictions_, trace_addrs,
                 history, res, calls, fills, nops, touched, filled, stored,
                 nfills, seen, aggvars, simvars, cfgvars, polvars>>

PolicyNext == PolicyOnHit \/ PolicyOnFill \/ PolicyGetVictim

\* freshly constructed policy objects under any sequence of calls
PolicySpec == Init /\ [][PolicyNext]_vars

(***************************************************************************)
(* Post-processing: the aggregation of the history into stats_db and the   *)
(* results table.                                                          *)
(***************************************************************************)
\* a walk that goes on after the hit level, counting misses below it
RECURSIVE WalkWithoutBreak(_, _, _, _)
WalkWithoutBreak(db, r, names, i) ==
  IF i > Len(names) THEN [stats_db |-> db, hit_found |-> FALSE]
  ELSE LET rest == WalkWithoutBreak(
                     IF names[i] = r.hit_level
                     THEN [db EXCEPT ![names[i]].hits = @ + 1,
                                     ![names[i]].total_latency =
                                        @ + r.total_cycles]
                     ELSE [db EXCEPT ![names[i]].misses = @ + 1],
                     r, names, i + 1)
       IN [rest EXCEPT !.hit_found = @ \/ names[i] = r.hit_level]

\* a walk that counts the hit and its cycles but no miss on the way
RECURSIVE WalkHitsOnly(_, _, _, _)
WalkHitsOnly(db, r, names, i) ==
  IF i > Len(names) THEN [stats_db |-> db, hit_found |-> FALSE]
  ELSE IF names[i] = r.hit_level
       THEN [stats_db |->
               [db EXCEPT ![names[i]].hits = @ + 1,
                          ![names[i]].total_latency = @ + r.total_cycles],
             hit_found |-> TRUE]
       ELSE WalkHitsOnly(db, r, names, i + 1)

\* the walk over the level names for one AccessResult, from position i on:
\* a miss for every name before the hit level, a hit and its cycles at the
\* hit level, then break
RECURSIVE Walk(_, _, _, _)
Walk(db, r, names, i) ==
  IF i > Len(names) THEN [stats_db |-> db, hit_found |-> FALSE]
  ELSE IF names[i] = r.hit_level
       THEN [stats_db |->
               [db EXCEPT ![names[i]].hits = @ + 1,
                          ![names[i]].total_latency = @ + r.total_cycles],
             hit_found |-> TRUE]
       ELSE Walk([db EXCEPT ![names[i]].misses = @ + 1], r, names, i + 1)

\* an aggregation that gives up once a hit level was not in the list
AggregateOneAborts(db, diag, r, names) ==
  LET w == Walk(db, r, names, 1)
  IN IF diag # <<>>
     THEN [stats_db |-> db, diagnostics |-> diag]
     ELSE [stats_db |-> w.stats_db,
           diagnostics |->
             IF w.hit_found THEN diag
             ELSE Append(diag, [msg |-> "Hit level not in hierarchy def",
                                arg |-> r.hit_level])]

\* the body of the aggregation loop for one AccessResult
AggregateOne(db, diag, r, names) ==
  LET w == Walk(db, r, names, 1)
  IN [stats_db |-> w.stats_db,
      diagnostics |->
        IF w.hit_found THEN diag
        ELSE Append(diag, [msg |-> "Hit level not in hierarchy def",
                           arg |-> r.hit_level])]

\* the aggregation loop over hist from entry i on
RECURSIVE Aggregate(_, _, _, _, _)
Aggregate(db, diag, hist, names, i) ==
  IF i > Len(hist) THEN [stats_db |-> db, diagnostics |-> diag]
  ELSE LET a == AggregateOne(db, diag, hist[i], names)
       IN Aggregate(a.stats_db, a.diagnostics, hist, names, i + 1)

\* an average over every access the level saw, hits and misses alike
AvgLatOverAccesses(st) ==
  IF st.hits > 0
  THEN LET n == st.hits + st.misses
           q == st.total_latency \div n
           rem == st.total_latency % n
       IN IF 2 * rem > n \/ (2 * rem = n /\ q % 2 = 1) THEN q + 1 ELSE q
  ELSE 0

\* (double)total_latency / hits as "{:.0f}" prints it: the nearest integer,
\* the even one of the two when the quotient lies halfway
AvgLat(st) ==
  IF st.hits > 0
  THEN LET q == st.total_latency \div st.hits
           rem == st.total_latency % st.hits
       IN IF 2 * rem > st.hits \/ (2 * rem = st.hits /\ q % 2 = 1)
          THEN q + 1 ELSE q
  ELSE 0

\* the rows of the results table, one for each name of the list
ReportRows(db, names) ==
  [i \in 1..Len(names) |->
     [level |-> names[i], hits |-> db[names[i]].hits,
      misses |-> db[names[i]].misses, avg_lat |-> AvgLat(db[names[i]])]]

\* the AccessResult of an access that level k satisfies, as level l returns it
RECURSIVE ResultAt(_, _)
ResultAt(l, k) ==
  IF l = k
  THEN [hit_level |-> Name[k],
        total_cycles |-> IF k = MemLevel THEN latency_ ELSE HitLatency[k]]
  ELSE AddCycles(ResultAt(l + 1, k), l)

\* the histories of up to MaxTrace accesses
Histories ==
  UNION {[1..n -> {ResultAt(1, k) : k \in 1..MemLevel}] : n \in 0..MaxTrace}

\* one round of the aggregation loop
AggregateRecord ==
  /\ pc = "aggregate"
  /\ agg_pos < Len(history)
  /\ LET a == AggregateOne(stats_db, diagnostics, history[agg_pos + 1],
                           hierarchy)
     IN /\ stats_db' = a.stats_db
        /\ diagnostics' = a.diagnostics
  /\ agg_pos' = agg_pos + 1
  /\ UNCHANGED <<sets_, policy_, hits_, misses_, evictions_, trace_addrs,
                 history, lastOp, res, calls, fills, nops, touched, filled,
                 stored, nfills, seen, hierarchy, report, pc, simvars,
                 cfgvars, polvars>>

\* the results table, printed when the aggregation loop is through
PrintReport ==
  /\ pc = "aggregate"
  /\ agg_pos = Len(history)
  /\ report' = ReportRows(stats_db, hierarchy)
  /\ pc' = "done"
  /\ UNCHANGED <<sets_, policy_, hits_, misses_, evictions_, trace_addrs,
                 history, lastOp, res, calls, fills, nops, touched, filled,
                 stored, nfills, seen, hierarchy, stats_db, agg_pos,
                 diagnostics, simvars, cfgvars, polvars>>

\* a history and a list of level names, about to be aggregated
AggInit ==
  /\ Constructed
  /\ policy_[1].kind = "LRU"
  /\ NoAccess
  /\ NoOutput
  /\ trace_addrs = <<>>
  /\ history \in Histories
  /\ hierarchy \in Hierarchies
  /\ pc = "aggregate"
  /\ NoTrace

AggNext == AggregateRecord \/ PrintReport

\* the post-processing of any history under any list of level names
AggSpec == AggInit /\ [][AggNext]_vars

(***************************************************************************)
(* ParseTraceFile.  A line is the sequence of its characters.              *)
(***************************************************************************)
HexLower == <<"0", "1", "2", "3", "4", "5", "6", "7", "8", "9",
              "a", "b", "c", "d", "e", "f">>
HexUpper == <<"0", "1", "2", "3", "4", "5", "6", "7", "8", "9",
              "A", "B", "C", "D", "E", "F">>
IsHexDigit(c) == \E i \in 1..16 : HexLower[i] = c \/ HexUpper[i] = c
HexValue(c) == (CHOOSE i \in 1..16 : HexLower[i] = c \/ HexUpper[i] = c) - 1

\* operator>> skips white space before it extracts: the first position from
\* i on that holds no blank, Len(line) + 1 when there is none
RECURSIVE SkipSpace(_, _)
SkipSpace(line, i) ==
  IF i > Len(line) THEN i
  ELSE IF line[i] = " " THEN SkipSpace(line, i + 1) ELSE i

\* operator>> into a std::string extracts up to the next white space: the
\* first position from i on that holds a blank, Len(line) + 1 when none does
RECURSIVE WordEnd(_, _)
WordEnd(line, i) ==
  IF i > Len(line) THEN i
  ELSE IF line[i] = " " THEN i ELSE WordEnd(line, i + 1)

\* the hexadecimal digits of str from position i on, as long as they go:
\* their value and how many they are
RECURSIVE HexRun(_, _, _, _)
HexRun(str, i, value, count) ==
  IF i > Len(str) \/ ~IsHexDigit(str[i])
  THEN [value |-> value, count |-> count]
  ELSE HexRun(str, i + 1, value * 16 + HexValue(str[i]), count + 1)

\* std::stoull(addr_str, nullptr, 16): an optional 0x or 0X before a digit,
\* then the digits; what follows them is left alone; -1 stands for the
\* std::invalid_argument thrown when there is no digit.  The model's lines
\* hold no sign and no number beyond 64 bits.
Stoull(addr_str) ==
  LET start == IF /\ Len(addr_str) >= 3
                  /\ addr_str[1] = "0"
                  /\ addr_str[2] \in {"x", "X"}
                  /\ IsHexDigit(addr_str[3])
               THEN 3 ELSE 1
      run == HexRun(addr_str, start, 0, 0)
  IN IF run.count = 0 THEN -1 ELSE run.value

\* the body of the getline loop for one line: the TraceOps and the warnings
\* it adds
ParseLine(line) ==
  IF line = <<>> \/ line[1] = "#"
  THEN [ops |-> <<>>, diagnostics |-> <<>>]
  ELSE
    LET t == SkipSpace(line, 1)
        a == SkipSpace(line, t + 1)
        e == WordEnd(line, a)
    IN IF t > Len(line) \/ a > Len(line)
       THEN [ops |-> <<>>, diagnostics |-> <<>>]
       ELSE LET addr == Stoull(SubSeq(line, a, e - 1))
            IN IF addr = -1
               THEN [ops |-> <<>>,
                     diagnostics |->
                       <<[msg |-> "Skipping invalid line", arg |-> line]>>]
               ELSE [ops |-> <<[type |-> line[t], addr |-> addr]>>,
                     diagnostics |-> <<>>]

\* the getline loop from line i on
RECURSIVE ParseLines(_, _, _, _)
ParseLines(lines, i, ops_, diag) ==
  IF i > Len(lines) THEN [ops |-> ops_, diagnostics |-> diag]
  ELSE LET p == ParseLine(lines[i])
       IN ParseLines(lines, i + 1, ops_ \o p.ops, diag \o p.diagnostics)

ParseTraceFile(f) ==
  IF ~f.open
  THEN [ops |-> <<>>,
        diagnostics |-> <<[msg |-> "Could not open trace file", arg |-> <<>>]>>]
  ELSE ParseLines(f.lines, 1, <<>>, <<>>)

\* the lines of the trace files: loads and stores of three blocks, with and
\* without 0x; a line with another letter, a line without an address, a
\* line whose address is no number, a comment
WellFormedLines ==
  {<<"L", " ", "0", "x", "0">>, <<"L", " ", "2">>, <<"L", " ", "0", "x", "4">>,
   <<"S", " ", "0", "x", "0">>, <<"S", " ", "2">>}
OtherLines ==
  {<<"X", " ", "0", "x", "2">>, <<"L">>, <<"S", " ", "z", "z">>,
   <<"#", " ", "L", " ", "0">>}
TraceFiles ==
  {Unavailable}
    \cup {[open |-> TRUE, lines |-> ls] :
            ls \in UNION {[1..n -> WellFormedLines] : n \in 0..MaxLines}}
    \cup {[open |-> TRUE, lines |-> ls] :
            ls \in UNION {[1..n -> WellFormedLines \cup OtherLines] :
                            n \in 0..MaxAnyLines}}

(***************************************************************************)
(* RunTraceSimulation.                                                     *)
(***************************************************************************)
cachevars == <<sets_, policy_, hits_, misses_, evictions_, lastOp, res, calls,
               fills, nops, touched, filled, stored, nfills, seen>>

\* a hierarchy that is kept from one run to the next
MakeCacheSystemReused == UNCHANGED cachevars

\* std::make_unique<CacheSystem>(mem_latency): a hierarchy of the same types,
\* newly constructed
MakeCacheSystem ==
  /\ policy_' = [l \in Levels |->
                   NewPolicy(policy_[l].kind, Sets[l], Ways[l])]
  /\ sets_' = [l \in Levels |->
                [s \in 0..(Sets[l] - 1) |-> [w \in 0..(Ways[l] - 1) |-> Line]]]
  /\ hits_' = [l \in Levels |-> 0]
  /\ misses_' = [l \in Levels |-> 0]
  /\ evictions_' = [l \in Levels |-> 0]
  /\ touched' = [l \in Levels |-> [s \in 0..(Sets[l] - 1) |-> <<>>]]
  /\ filled' = [l \in Levels |-> [s \in 0..(Sets[l] - 1) |-> <<>>]]
  /\ stored' = [l \in Levels |->
                 [s \in 0..(Sets[l] - 1) |-> [w \in 0..(Ways[l] - 1) |-> {}]]]
  /\ nfills' = [l \in Levels |-> [s \in 0..(Sets[l] - 1) |-> 0]]
  /\ lastOp' = NoOp
  /\ res' = NoRes
  /\ calls' = <<>>
  /\ fills' = <<>>
  /\ nops' = 0
  /\ seen' = {}

\* RunTraceSimulation up to its loop: parse the file, return when there is
\* no operation, construct the hierarchy.  It is called on a trace file and,
\* when that run is over, once more on the same file.
StartRun ==
  /\ pc = "start" \/ (pc = "done" /\ ~prev.ran)
  /\ prev' = IF pc = "done"
             THEN [ran |-> TRUE, history |-> history]
             ELSE prev
  /\ LET parsed == ParseTraceFile(file)
     IN /\ ops' = parsed.ops
        /\ diagnostics' = parsed.diagnostics
        /\ IF parsed.ops = <<>>
           THEN /\ pc' = "done"
                /\ UNCHANGED cachevars
           ELSE /\ pc' = "loop"
                /\ MakeCacheSystem
  /\ history' = <<>>
  /\ trace_addrs' = <<>>
  /\ stats_db' = NoStats
  /\ agg_pos' = 0
  /\ report' = <<>>
  /\ UNCHANGED <<file, hierarchy, cfgvars, polvars>>

\* the range-for over ops taking the operations from the last one down
NextOpFromEnd(ops_, n) == ops_[Len(ops_) - n]

\* the range-for over ops: the operation that comes after the first n
NextOp(ops_, n) == ops_[n + 1]

\* the loop body: Load for an 'L', Store for anything else, and the result
\* and the address pushed back
SimStep ==
  /\ pc = "loop"
  /\ Len(history) < Len(ops)
  /\ LET op == NextOp(ops, Len(history))
     IN \E rng \in Rngs :
          LET r == IF op.type = "L"
                   THEN Load(Hier(rng), 1, op.addr)
                   ELSE Store(Hier(rng), 1, op.addr)
          IN /\ Install(r, IF op.type = "L" THEN "Load" ELSE "Store", op.addr)
             /\ history' = Append(history, r.res)
             /\ trace_addrs' = Append(trace_addrs, op.addr)
  /\ UNCHANGED <<aggvars, simvars, cfgvars, polvars>>

\* PrintSimulationStats(history, hierarchy) after the loop: the aggregation
\* and the table
PrintStats ==
  /\ pc = "loop"
  /\ Len(history) = Len(ops)
  /\ LET a == Aggregate(NoStats, diagnostics, history, hierarchy, 1)
     IN /\ stats_db' = a.stats_db
        /\ diagnostics' = a.diagnostics
        /\ report' = ReportRows(a.stats_db, hierarchy)
  /\ agg_pos' = Len(history)
  /\ pc' = "done"
  /\ UNCHANGED <<cachevars, trace_addrs, history, hierarchy, simvars,
                 cfgvars, polvars>>

\* a trace file and the hierarchy's types, before the first run
SimInit ==
  /\ Constructed
  /\ NoAccess
  /\ NoOutput
  /\ trace_addrs = <<>>
  /\ history = <<>>
  /\ hierarchy = Name
  /\ pc = "start"
  /\ file \in TraceFiles
  /\ ops = <<>>
  /\ prev = NoRun

SimNext == StartRun \/ SimStep \/ PrintStats

\* RunTraceSimulation on a trace file, twice
SimSpec == SimInit /\ [][SimNext]_vars

(***************************************************************************)
(* Construction of a Cache type of any geometry: Cache<"L1",               *)
(* MainMemory<"MainMemory">, Sets, Ways, BlockSize> with the default       *)
(* ReplacePolicy and HitLatency, constructed and then called.              *)
(***************************************************************************)
\* the default template argument HitLatency
DefaultHitLatency == 1

Geometries == [Sets : 1..MaxGeom, Ways : 1..MaxGeom, BlockSize : 1..MaxGeom]

\* set_idx and tag as Load and Store compute them from the template arguments
GeoSetIdx(g, addr) == (addr \div g.BlockSize) % g.Sets
GeoTag(g, addr) == (addr \div g.BlockSize) \div g.Sets

\* Cache::Fill of a level right above MainMemory, whose Store changes nothing
GeoFill(g, lines, p, set_idx, tag) ==
  LET free == FirstInvalidFrom(lines, g.Ways, 0)
      full == (free = g.Ways)
      way == IF full THEN GetVictim(p, set_idx, 0) ELSE free
  IN [lines |-> [lines EXCEPT
                   ![way] = [valid |-> TRUE, dirty |-> FALSE, tag |-> tag]],
      policy |-> OnFill(p, set_idx, way),
      evicted |-> IF full /\ NeedsWriteBack(lines[way]) THEN 1 ELSE 0,
      way |-> way]

\* Cache::Cache: the constructor takes any template arguments and builds
\* sets_ and policy_ from them; nothing is checked, printed or thrown
CacheCtor ==
  /\ pc = "construct"
  /\ sets_' = <<[s \in 0..(geometry.Sets - 1) |->
                  [w \in 0..(geometry.Ways - 1) |-> Line]]>>
  /\ policy_' = <<LRUPolicy(geometry.Sets, geometry.Ways)>>
  /\ hits_' = <<0>>
  /\ misses_' = <<0>>
  /\ evictions_' = <<0>>
  /\ pc' = "ready"
  /\ UNCHANGED <<trace_addrs, history, lastOp, res, calls, fills, nops,
                 touched, filled, stored, nfills, seen, hierarchy, stats_db,
                 agg_pos, diagnostics, report, simvars, cfgvars, polvars>>

\* Cache::Load and Cache::Store on the constructed cache
CfgAccess ==
  /\ pc = "ready"
  /\ nops < MaxCfgOps
  /\ \E type \in {"Load", "Store"}, addr \in Addrs :
       LET set_idx == GeoSetIdx(geometry, addr)
           tag == GeoTag(geometry, addr)
           lines == sets_[1][set_idx]
           way_idx == LookupFrom(lines, geometry.Ways, tag, 0)
       IN /\ IF way_idx < geometry.Ways
             THEN /\ hits_' = [hits_ EXCEPT ![1] = @ + 1]
                  /\ policy_' = [policy_ EXCEPT
                                   ![1] = OnHit(@, set_idx, way_idx)]
                  /\ sets_' = IF type = "Store"
                              THEN [sets_ EXCEPT
                                      ![1][set_idx][way_idx].dirty = TRUE]
                              ELSE sets_
                  /\ res' = [hit_level |-> "L1",
                             total_cycles |-> DefaultHitLatency]
                  /\ UNCHANGED <<misses_, evictions_>>
             ELSE LET f == GeoFill(geometry, lines, policy_[1], set_idx, tag)
                  IN /\ misses_' = [misses_ EXCEPT ![1] = @ + 1]
                     /\ evictions_' = [evictions_ EXCEPT ![1] = @ + f.evicted]
                     /\ policy_' = [policy_ EXCEPT ![1] = f.policy]
                     /\ sets_' =
                          [sets_ EXCEPT
                             ![1][set_idx] =
                                IF type = "Store"
                                THEN [f.lines EXCEPT ![f.way].dirty = TRUE]
                                ELSE f.lines]
                     /\ res' = [hit_level |-> "MainMemory",
                                total_cycles |-> latency_ + DefaultHitLatency]
                     /\ UNCHANGED hits_
          /\ lastOp' = [type |-> type, addr |-> addr]
  /\ nops' = nops + 1
  /\ UNCHANGED <<trace_addrs, history, calls, fills, touched, filled, stored,
                 nfills, seen, aggvars, simvars, cfgvars, polvars>>

\* a Cache type of some geometry, about to be constructed
CfgInit ==
  /\ geometry \in Geometries
  /\ pc = "construct"
  /\ sets_ = <<>>
  /\ policy_ = <<>>
  /\ nested_policy_ = <<>>
  /\ hits_ = <<>>
  /\ misses_ = <<>>
  /\ evictions_ = <<>>
  /\ touched = <<>>
  /\ filled = <<>>
  /\ stored = <<>>
  /\ nfills = <<>>
  /\ NoAccess
  /\ NoOutput
  /\ NoTrace
  /\ trace_addrs = <<>>
  /\ history = <<>>
  /\ hierarchy = <<"L1", "MainMemory">>

CfgNext == CacheCtor \/ CfgAccess

\* construction and use of a Cache of any geometry
ConfigSpec == CfgInit /\ [][CfgNext]_vars

(***************************************************************************)
(* Vocabulary of the properties.                                           *)
(***************************************************************************)
Kind(l) == policy_[l].kind
BlockOf(l, addr) == addr \div BlockSize[l]
BlockBase(l, addr) == BlockOf(l, addr) * BlockSize[l]
WaysOf(l) == 0..(Ways[l] - 1)
AllValid(lines, l) == \A w \in WaysOf(l) : lines[w].valid
ValidTags(lines, l) == {lines[w].tag : w \in {v \in WaysOf(l) : lines[v].valid}}
NumValid(lines, l) == Cardinality({w \in WaysOf(l) : lines[w].valid})
\* the fill replaced a line that held a block, a line that held a written block
Replaced(f) == f.before[f.way].valid
ReplacedDirty(f) == f.before[f.way].valid /\ f.before[f.way].dirty
\* the Store calls made on level l, the fills of level l that replaced a
\* written block
StoreCallsOn(l) ==
  {j \in DOMAIN calls : calls[j].level = l /\ calls[j].type = "Store"}
DirtyReplacementsAt(l) ==
  {i \in DOMAIN fills : fills[i].level = l /\ ReplacedDirty(fills[i])}
\* the first level, top down, that holds the block of addr
FirstResident(lines_, addr) ==
  CHOOSE k \in 1..MemLevel :
    /\ Resident(lines_, k, addr)
    /\ \A j \in 1..(k - 1) : ~Resident(lines_, j, addr)
\* the latencies of levels 1 .. k added up
RECURSIVE CyclesTo(_)
CyclesTo(k) ==
  IF k = 0 THEN 0
  ELSE (IF k = MemLevel THEN latency_ ELSE HitLatency[k]) + CyclesTo(k - 1)
\* the position of a level name in the hierarchy
Depth(name) == CHOOSE k \in 1..MemLevel : Name[k] = name
\* generators that yield way 0 at every draw
AnyRng == [l \in Levels |-> [i \in 1..FillsPerCall[l] |-> 0]]
\* what the hierarchy, as it is, returns to each call the run can make next
NextResults ==
  IF nops < MaxOps
  THEN LET h == Hier(AnyRng)
       IN {Load(h, 1, a).res : a \in Addrs}
            \cup {Store(h, 1, a).res : a \in Addrs}
  ELSE {}
\* the trace of main so far is Load(A), Load(B), Load(A), Load(C) with A, B
\* and C in three blocks of the top level
IsABAC ==
  /\ Len(trace_addrs) = 4
  /\ trace_addrs[3] = trace_addrs[1]
  /\ BlockOf(1, trace_addrs[1]) # BlockOf(1, trace_addrs[2])
  /\ BlockOf(1, trace_addrs[4]) # BlockOf(1, trace_addrs[1])
  /\ BlockOf(1, trace_addrs[4]) # BlockOf(1, trace_addrs[2])

(***************************************************************************)
(* C1: under LRUPolicy a fill of a set whose ways are all valid replaces   *)
(* the line whose last hit or fill is the oldest of the set; and in the    *)
(* one-set two-way top level, after Load(A), Load(B), Load(A), Load(C) on  *)
(* a fresh hierarchy A is resident, B is not, and the Load(C) reported     *)
(* MainMemory.                                                             *)
(***************************************************************************)
C1_LRUEvictsLeastRecent ==
  /\ \A i \in DOMAIN fills :
       LET f == fills[i]
       IN (Kind(f.level) = "LRU" /\ AllValid(f.before, f.level))
            => /\ Len(f.touched) = Ways[f.level]
               /\ f.way = Head(f.touched)
               /\ f.tag \in ValidTags(f.after, f.level)
               /\ f.before[f.way].tag \notin ValidTags(f.after, f.level)
  /\ (Kind(1) = "LRU" /\ IsABAC)
       => /\ Resident(sets_, 1, trace_addrs[1])
          /\ ~Resident(sets_, 1, trace_addrs[2])
          /\ Resident(sets_, 1, trace_addrs[4])
          /\ history[4].hit_level = "MainMemory"

C1_Witness ==
  /\ Kind(1) = "LRU"
  /\ IsABAC
  /\ Len(fills) > 0
  /\ fills[Len(fills)].level = 1
  /\ AllValid(fills[Len(fills)].before, 1)

(***************************************************************************)
(* C2: under FIFOPolicy a fill of a set whose ways are all valid replaces  *)
(* the line that was filled earliest among the lines of the set, whatever  *)
(* hits came in between; and in the one-set two-way top level, after       *)
(* Load(A), Load(B), Load(A), Load(C) on a fresh hierarchy A is gone and B *)
(* is resident.                                                            *)
(***************************************************************************)
C2_FIFOEvictsEarliestFill ==
  /\ \A i \in DOMAIN fills :
       LET f == fills[i]
       IN (Kind(f.level) = "FIFO" /\ AllValid(f.before, f.level))
            => /\ Len(f.filled) = Ways[f.level]
               /\ f.way = Head(f.filled)
               /\ f.tag \in ValidTags(f.after, f.level)
               /\ f.before[f.way].tag \notin ValidTags(f.after, f.level)
  /\ (Kind(1) = "FIFO" /\ IsABAC)
       => /\ ~Resident(sets_, 1, trace_addrs[1])
          /\ Resident(sets_, 1, trace_addrs[2])
          /\ Resident(sets_, 1, trace_addrs[4])

C2_Witness ==
  /\ Kind(1) = "FIFO"
  /\ IsABAC
  /\ hits_[1] = 1
  /\ Len(fills) > 0
  /\ fills[Len(fills)].level = 1
  /\ AllValid(fills[Len(fills)].before, 1)

(***************************************************************************)
(* C3: when a line that was written by Store(a) is replaced while dirty,   *)
(* the address handed to the next level's Store is a itself.               *)
(* This is the claim as stated; it fails for an address that is not the    *)
(* first of its block.                                                     *)
(***************************************************************************)
C3_WriteBackAddrIsStoredAddr ==
  \A i \in DOMAIN fills :
    LET f == fills[i]
    IN (AllValid(f.before, f.level) /\ ReplacedDirty(f))
         => \A a \in f.stored : f.evict_addr = a

(***************************************************************************)
(* C3, amended: when a line that was written by Store(a) is replaced while *)
(* dirty, the next level's Store is called with the first address of a's   *)
(* block, (a div block_size) * block_size, which decomposes into the same  *)
(* set index and tag as a and is a itself when a is block-aligned.         *)
(***************************************************************************)
C3_WriteBackAddrIsBlockBase ==
  \A i \in DOMAIN fills :
    LET f == fills[i]
    IN (AllValid(f.before, f.level) /\ ReplacedDirty(f))
         => /\ f.stored # {}
            /\ \A a \in f.stored :
                 /\ f.evict_addr = BlockBase(f.level, a)
                 /\ SetIdx(f.level, f.evict_addr) = SetIdx(f.level, a)
                 /\ TagOf(f.level, f.evict_addr) = TagOf(f.level, a)
                 /\ (a % BlockSize[f.level] = 0) => f.evict_addr = a
                 /\ \E j \in DOMAIN calls :
                      /\ calls[j].level = f.level + 1
                      /\ calls[j].type = "Store"
                      /\ calls[j].addr = BlockBase(f.level, a)

C3_Witness ==
  \E i \in DOMAIN fills :
    /\ ReplacedDirty(fills[i])
    /\ \E a \in fills[i].stored : a % BlockSize[fills[i].level] # 0
    /\ \E a \in fills[i].stored : a % BlockSize[fills[i].level] = 0

(***************************************************************************)
(* C4: a level calls the next level's Store once for each line it replaces *)
(* while the line is valid and dirty, with that line's address, and at no  *)
(* other time: an access in which a level replaces no dirty line makes no  *)
(* Store call on the level below it.                                       *)
(***************************************************************************)
C4_StoreOnlyForDirtyVictim ==
  \A l \in Levels :
    /\ Cardinality(StoreCallsOn(l + 1)) = Cardinality(DirtyReplacementsAt(l))
    /\ \A i \in DirtyReplacementsAt(l) :
         Cardinality({j \in StoreCallsOn(l + 1) :
                        calls[j].addr = fills[i].evict_addr}) = 1
    /\ \A i \in DOMAIN fills :
         (fills[i].level = l /\ ~ReplacedDirty(fills[i]))
           => fills[i].evict_addr = -1

C4_Witness ==
  /\ StoreCallsOn(MemLevel) # {}
  /\ StoreCallsOn(2) # {}
  /\ Cardinality(DirtyReplacementsAt(1)) = 1
  /\ Cardinality(DirtyReplacementsAt(2)) = 1

(***************************************************************************)
(* C5: in a set of W ways, none of the first W fills replaces a valid line *)
(* and the n-th of them leaves n blocks resident; every later fill         *)
(* replaces one resident block and leaves W valid lines.                   *)
(***************************************************************************)
C5_Capacity ==
  /\ \A i \in DOMAIN fills :
       LET f == fills[i]
           W == Ways[f.level]
           gone == ValidTags(f.before, f.level) \ ValidTags(f.after, f.level)
       IN /\ f.tag \in ValidTags(f.after, f.level)
          /\ f.nth <= W =>
               /\ ~Replaced(f)
               /\ gone = {}
               /\ NumValid(f.before, f.level) = f.nth - 1
               /\ NumValid(f.after, f.level) = f.nth
               /\ Cardinality(ValidTags(f.after, f.level)) = f.nth
          /\ f.nth > W =>
               /\ Replaced(f)
               /\ Cardinality(gone) = 1
               /\ NumValid(f.before, f.level) = W
               /\ NumValid(f.after, f.level) = W
  /\ \A l \in Levels : \A s \in 0..(Sets[l] - 1) :
       NumValid(sets_[l][s], l) =
         IF nfills[l][s] < Ways[l] THEN nfills[l][s] ELSE Ways[l]

C5_Witness ==
  \E i \in DOMAIN fills :
    /\ fills[i].level = 1
    /\ fills[i].nth = Ways[1] + 1
    /\ NumValid(sets_[1][fills[i].set], 1) = Ways[1]

(***************************************************************************)
(* C6: in every set of every level, no two valid lines hold the same tag.  *)
(***************************************************************************)
C6_OneLinePerTag ==
  \A l \in Levels : \A s \in 0..(Sets[l] - 1) :
    \A w1, w2 \in WaysOf(l) :
      (w1 # w2 /\ sets_[l][s][w1].valid /\ sets_[l][s][w2].valid)
        => sets_[l][s][w1].tag # sets_[l][s][w2].tag

C6_Witness ==
  /\ AllValid(sets_[1][0], 1)
  /\ hits_[1] > 0
  /\ evictions_[1] > 0
  /\ lastOp.type = "Store"

(***************************************************************************)
(* C7: a top-level Load or Store returns as hit_level the name of the      *)
(* first level, top down, that held the block when the call was made       *)
(* (MainMemory holds every block), and as total_cycles the sum of the      *)
(* latencies of the levels from the top down to that one; write-backs made *)
(* during the call change neither.                                         *)
(***************************************************************************)
C7_Step ==
  nops' = nops + 1 =>
    LET k == FirstResident(sets_, lastOp'.addr)
    IN /\ res'.hit_level = Name[k]
       /\ res'.total_cycles = CyclesTo(k)

\* C7: every step returns the first resident level and the latencies down to it
C7_HitLevelAndCycles == [][C7_Step]_vars

C7_Witness ==
  /\ res.hit_level = "L2"
  /\ \E j \in DOMAIN calls :
       calls[j].type = "Store" /\ calls[j].level = 2 /\ ~calls[j].hit

(***************************************************************************)
(* C8: of any two accesses on one hierarchy, those it has answered and     *)
(* those the run can make next, the one satisfied nearer the top has no    *)
(* more total_cycles than the other.                                       *)
(***************************************************************************)
C8_CyclesMonotoneInDepth ==
  \A r1, r2 \in seen \cup NextResults :
    Depth(r1.hit_level) < Depth(r2.hit_level)
      => r1.total_cycles <= r2.total_cycles

C8_Witness ==
  /\ \A k \in 1..MemLevel : \E r \in seen \cup NextResults : r.hit_level = Name[k]
  /\ \E r \in seen : r.hit_level = "MainMemory"
  /\ \E r \in NextResults : r.hit_level = "L1"
  /\ \E r \in NextResults : r.hit_level = "L2"
  /\ \E i \in DOMAIN fills : fills[i].wroteback

(***************************************************************************)
(* C9: a Store that hits marks the hit line dirty, returns this level's    *)
(* name and latency and calls nothing below: the lower levels are as they  *)
(* were, and at this level no valid bit and no tag changes and no other    *)
(* line becomes dirty.  A write-back Store that hits at a lower level      *)
(* likewise calls nothing below that level and leaves the line dirty.      *)
(***************************************************************************)
C9_Step ==
  /\ (nops' = nops + 1 /\ lastOp'.type = "Store"
        /\ Resident(sets_, 1, lastOp'.addr)) =>
       LET a == lastOp'.addr
           s == SetIdx(1, a)
           t == TagOf(1, a)
       IN /\ res' = [hit_level |-> Name[1], total_cycles |-> HitLatency[1]]
          /\ calls' = <<>>
          /\ fills' = <<>>
          /\ \A l \in Levels \ {1} :
               /\ sets_'[l] = sets_[l]
               /\ policy_'[l] = policy_[l]
               /\ hits_'[l] = hits_[l]
               /\ misses_'[l] = misses_[l]
               /\ evictions_'[l] = evictions_[l]
          /\ \A ss \in 0..(Sets[1] - 1) : \A w \in WaysOf(1) :
               /\ sets_'[1][ss][w].valid = sets_[1][ss][w].valid
               /\ sets_'[1][ss][w].tag = sets_[1][ss][w].tag
               /\ sets_'[1][ss][w].dirty =
                    (\/ sets_[1][ss][w].dirty
                     \/ (ss = s /\ sets_[1][ss][w].valid
                           /\ sets_[1][ss][w].tag = t))
          /\ \E w \in WaysOf(1) :
               /\ sets_'[1][s][w].valid
               /\ sets_'[1][s][w].tag = t
               /\ sets_'[1][s][w].dirty
  /\ nops' = nops + 1 =>
       \A j \in DOMAIN calls' :
         (calls'[j].type = "Store" /\ calls'[j].level \in Levels
            /\ calls'[j].hit) =>
           LET l == calls'[j].level
               a == calls'[j].addr
           IN /\ \A k \in DOMAIN calls' : k > j => calls'[k].level <= l
              /\ \E w \in WaysOf(l) :
                   /\ sets_'[l][SetIdx(l, a)][w].valid
                   /\ sets_'[l][SetIdx(l, a)][w].tag = TagOf(l, a)
                   /\ sets_'[l][SetIdx(l, a)][w].dirty

\* C9: every step with a Store that hits stays within the level it hits in
C9_StoreHitStaysLocal == [][C9_Step]_vars

C9_Witness ==
  /\ lastOp.type = "Store"
  /\ res.hit_level = "L1"
  /\ calls = <<>>
  /\ \E s \in 0..(Sets[2] - 1) : sets_[2][s][0].valid
  /\ \E w \in WaysOf(1) : sets_[1][0][w].valid /\ ~sets_[1][0][w].dirty

(***************************************************************************)
(* C10: a Store that misses first calls the next level's Load with the     *)
(* stored address and never the next level's Store for that block; on      *)
(* return one line of the set is valid with the address's tag and dirty,   *)
(* and every other line of the level is as it was.  A write-back Store     *)
(* that misses at a lower level fetches the block the same way and leaves  *)
(* its line dirty.                                                         *)
(***************************************************************************)
C10_Step ==
  /\ (nops' = nops + 1 /\ lastOp'.type = "Store"
        /\ ~Resident(sets_, 1, lastOp'.addr)) =>
       LET a == lastOp'.addr
           s == SetIdx(1, a)
           t == TagOf(1, a)
           holds == {w \in WaysOf(1) :
                       sets_'[1][s][w].valid /\ sets_'[1][s][w].tag = t}
       IN /\ Len(calls') >= 1
          /\ calls'[1].level = 2
          /\ calls'[1].type = "Load"
          /\ calls'[1].addr = a
          /\ \A j \in DOMAIN calls' :
               (calls'[j].level = 2 /\ calls'[j].type = "Store")
                 => BlockOf(1, calls'[j].addr) # BlockOf(1, a)
          /\ Cardinality(holds) = 1
          /\ \A w \in holds : sets_'[1][s][w].dirty
          /\ \A ss \in 0..(Sets[1] - 1) : \A w \in WaysOf(1) :
               (ss # s \/ w \notin holds)
                 => sets_'[1][ss][w] = sets_[1][ss][w]
  /\ nops' = nops + 1 =>
       \A j \in DOMAIN calls' :
         (calls'[j].type = "Store" /\ calls'[j].level \in Levels
            /\ ~calls'[j].hit) =>
           LET l == calls'[j].level
               a == calls'[j].addr
           IN /\ j < Len(calls')
              /\ calls'[j + 1].level = l + 1
              /\ calls'[j + 1].type = "Load"
              /\ calls'[j + 1].addr = a
              /\ \E w \in WaysOf(l) :
                   /\ sets_'[l][SetIdx(l, a)][w].valid
                   /\ sets_'[l][SetIdx(l, a)][w].tag = TagOf(l, a)
                   /\ sets_'[l][SetIdx(l, a)][w].dirty

\* C10: every step with a Store that misses fetches by Load and leaves the
\* line dirty
C10_StoreMissAllocatesDirty == [][C10_Step]_vars

C10_Witness ==
  /\ lastOp.type = "Store"
  /\ res.hit_level = "L2"
  /\ \E i \in DOMAIN fills : fills[i].level = 1 /\ ReplacedDirty(fills[i])
  /\ \E w \in WaysOf(1) :
       /\ sets_[1][0][w].valid
       /\ sets_[1][0][w].tag = TagOf(1, lastOp.addr)
       /\ sets_[1][0][w].dirty

(***************************************************************************)
(* C11: a Load that hits returns this level's name and hit latency and     *)
(* calls nothing below; at that level no valid bit, dirty bit or tag       *)
(* changes, only the hit counter and the policy's bookkeeping, and the     *)
(* lower levels are as they were.  A Load that hits at a lower level       *)
(* likewise makes no call on the level below it.                           *)
(***************************************************************************)
C11_Step ==
  /\ (nops' = nops + 1 /\ lastOp'.type = "Load"
        /\ Resident(sets_, 1, lastOp'.addr)) =>
       /\ res' = [hit_level |-> Name[1], total_cycles |-> HitLatency[1]]
       /\ calls' = <<>>
       /\ fills' = <<>>
       /\ sets_' = sets_
       /\ hits_' = [hits_ EXCEPT ![1] = @ + 1]
       /\ misses_' = misses_
       /\ evictions_' = evictions_
       /\ \A l \in Levels \ {1} : policy_'[l] = policy_[l]
       /\ policy_'[1].kind = policy_[1].kind
       /\ policy_'[1].num_sets_ = policy_[1].num_sets_
       /\ policy_'[1].num_ways_ = policy_[1].num_ways_
  /\ nops' = nops + 1 =>
       \A j \in DOMAIN calls' :
         (calls'[j].type = "Load" /\ calls'[j].level \in Levels
            /\ calls'[j].hit) =>
           LET l == calls'[j].level
           IN /\ j < Len(calls') => calls'[j + 1].level # l + 1
              /\ res'.hit_level = Name[l]
              /\ hits_'[l] > hits_[l]

\* C11: every step with a Load that hits stays within the level it hits in
C11_LoadHitStaysLocal == [][C11_Step]_vars

C11_Witness ==
  /\ lastOp.type = "Load"
  /\ res.hit_level = "L1"
  /\ calls = <<>>
  /\ \E w \in WaysOf(1) : sets_[1][0][w].valid /\ sets_[1][0][w].dirty
  /\ \E s \in 0..(Sets[2] - 1) : sets_[2][s][0].valid /\ sets_[2][s][0].dirty

\* the position of a name in a list of names, 0 when it is not in the list
PosIn(names, n) ==
  IF \E i \in DOMAIN names : names[i] = n
  THEN CHOOSE i \in DOMAIN names : names[i] = n
  ELSE 0
\* the history entry the aggregation loop is at
AggRecord == history[agg_pos + 1]

(***************************************************************************)
(* C12: for an access whose hit_level is at position k of the list of      *)
(* level names, aggregation adds one to the misses of the names before k   *)
(* and nothing else to them, adds one to the hits of name k and the        *)
(* access's total_cycles to its latency total, and leaves the counters of  *)
(* every name after k as they were.                                        *)
(***************************************************************************)
C12_Step ==
  (agg_pos' = agg_pos + 1 /\ PosIn(hierarchy, AggRecord.hit_level) > 0) =>
    LET k == PosIn(hierarchy, AggRecord.hit_level)
    IN /\ \A i \in 1..(k - 1) :
            stats_db'[hierarchy[i]] =
              [stats_db[hierarchy[i]] EXCEPT !.misses = @ + 1]
       /\ stats_db'[hierarchy[k]] =
            [stats_db[hierarchy[k]] EXCEPT
               !.hits = @ + 1,
               !.total_latency = @ + AggRecord.total_cycles]
       /\ \A n \in LevelNames :
            (\A i \in 1..k : hierarchy[i] # n) => stats_db'[n] = stats_db[n]
       /\ diagnostics' = diagnostics

\* C12: every aggregation step counts misses above the hit level and the hit
\* at it
C12_AggregationCounts == [][C12_Step]_vars

C12_Witness ==
  /\ pc = "done"
  /\ hierarchy = Name
  /\ \A k \in 1..MemLevel : stats_db[Name[k]].hits > 0
  /\ stats_db["L1"].misses > 1
  /\ stats_db["L2"].total_latency > HitLatency[1] + HitLatency[2]

(***************************************************************************)
(* C13: an access whose hit_level is not in the list of level names makes  *)
(* the aggregation print a diagnostic and changes no hit counter, no miss  *)
(* counter and no latency total.                                           *)
(* This is the claim as stated; the walk has counted a miss for every name *)
(* of the list by the time it finds that none matches.                     *)
(***************************************************************************)
C13_Step ==
  (agg_pos' = agg_pos + 1 /\ PosIn(hierarchy, AggRecord.hit_level) = 0) =>
    /\ Len(diagnostics') = Len(diagnostics) + 1
    /\ diagnostics'[Len(diagnostics')].arg = AggRecord.hit_level
    /\ stats_db' = stats_db

\* C13: every aggregation step on an unknown hit level only prints
C13_UnknownLevelCountsNothing == [][C13_Step]_vars

\* the entries of a history whose hit level is in the list of names
Known(hist) == SelectSeq(hist, LAMBDA r : PosIn(hierarchy, r.hit_level) > 0)
\* what the first p entries of the history add up to once the entries with
\* an unknown hit level are taken out of it
CleanStats(p) ==
  Aggregate(NoStats, <<>>, Known(SubSeq(history, 1, p)), hierarchy, 1).stats_db
\* the difference of two CacheStats
StatsDiff(a, b) ==
  [hits |-> a.hits - b.hits, misses |-> a.misses - b.misses,
   total_latency |-> a.total_latency - b.total_latency]

(***************************************************************************)
(* C14: after an access with an unknown hit_level the aggregation goes on: *)
(* the table is printed only when every entry of the history has been      *)
(* through the loop, and each later access with a known hit_level adds to  *)
(* every counter what it adds in the aggregation of the history without    *)
(* the unknown accesses.                                                   *)
(***************************************************************************)
C14_Step ==
  /\ (agg_pos' = agg_pos + 1 /\ diagnostics # <<>>
        /\ PosIn(hierarchy, AggRecord.hit_level) > 0) =>
       /\ \A n \in LevelNames :
            StatsDiff(stats_db'[n], stats_db[n]) =
              StatsDiff(CleanStats(agg_pos + 1)[n], CleanStats(agg_pos)[n])
       /\ stats_db' # stats_db
       /\ diagnostics' = diagnostics
  /\ (pc' = "done" /\ pc = "aggregate") =>
       /\ agg_pos = Len(history)
       /\ Len(report') = Len(hierarchy)

\* C14: every aggregation step after an unknown hit level counts as without it
C14_AggregationGoesOn == [][C14_Step]_vars

C14_Witness ==
  /\ pc = "done"
  /\ Len(history) >= 3
  /\ PosIn(hierarchy, history[1].hit_level) = 0
  /\ Len(diagnostics) = 1
  /\ \E n \in LevelNames : stats_db[n].hits >= 2

\* the hits, misses and latency totals the aggregation gives a history
Aggregated(hist) == Aggregate(NoStats, <<>>, hist, hierarchy, 1).stats_db

(***************************************************************************)
(* C15: a second run of the same trace file on a newly constructed         *)
(* hierarchy of the same types, under LRU or FIFO, returns access by       *)
(* access the hit_level and total_cycles of the first run, and at its end  *)
(* the same hits, misses and latency totals for every level.               *)
(***************************************************************************)
C15_ReplayReproduces ==
  (prev.ran /\ Kind(1) \in {"LRU", "FIFO"}) =>
    /\ Len(history) <= Len(prev.history)
    /\ \A i \in DOMAIN history : history[i] = prev.history[i]
    /\ pc = "done" =>
         /\ history = prev.history
         /\ Aggregated(history) = Aggregated(prev.history)

C15_Witness ==
  /\ prev.ran
  /\ pc = "done"
  /\ Kind(1) \in {"LRU", "FIFO"}
  /\ Len(history) = 4
  /\ history[4].hit_level = "L1"
  /\ Aggregated(history)["L1"].misses = 3
  /\ nfills[1][0] = 3
  /\ evictions_[1] = 1

(***************************************************************************)
(* C16: a second run of the same trace file on a newly constructed         *)
(* hierarchy of the same types under RandomPolicy, the two policies        *)
(* answering the same sequence of GetVictim calls, returns access by       *)
(* access the results of the first run.                                    *)
(* This is the claim as stated; RandomPolicy takes no seed, each instance  *)
(* seeds its generator from std::random_device.                            *)
(***************************************************************************)
C16_RandomReplayReproduces ==
  (prev.ran /\ Kind(1) = "Random") =>
    \A i \in DOMAIN history :
      i <= Len(prev.history) => history[i] = prev.history[i]

(***************************************************************************)
(* C17: every round of the loop pushes one entry on the history, the       *)
(* result of the call for the next operation of the trace on the hierarchy *)
(* as the operations before it left it, and its address on trace_addrs;    *)
(* when the loop is over the history has one entry for each operation.     *)
(***************************************************************************)
C17_Step ==
  /\ (pc = "loop" /\ history' # history) =>
       LET op == ops[Len(history) + 1]
           after(rng) == IF op.type = "L"
                         THEN Load(Hier(rng), 1, op.addr)
                         ELSE Store(Hier(rng), 1, op.addr)
       IN /\ Len(history) < Len(ops)
          /\ \E rng \in Rngs :
               /\ history' = Append(history, after(rng).res)
               /\ sets_' = after(rng).h.sets_
               /\ policy_' = after(rng).h.policy_
          /\ trace_addrs' = Append(trace_addrs, op.addr)
          /\ lastOp'.addr = op.addr
          /\ ops' = ops
  /\ (pc = "loop" /\ history' = history) =>
       /\ sets_' = sets_
       /\ policy_' = policy_
       /\ Len(history) = Len(ops)
       /\ Len(trace_addrs) = Len(ops)
       /\ \A i \in DOMAIN ops : trace_addrs[i] = ops[i].addr

\* C17: every step of the loop runs the next operation of the trace, in order
C17_HistoryInTraceOrder == [][C17_Step]_vars

C17_Witness ==
  /\ pc = "done"
  /\ Len(history) = 4
  /\ Len(ops) = 4
  /\ ops[1].addr # ops[2].addr
  /\ ops[1].type # ops[2].type
  /\ history[3].hit_level = "L1"
  /\ history[4].hit_level = "MainMemory"

\* the grammar of a trace line: L or S, a blank, a hexadecimal literal with
\* or without 0x; and the lines the grammar lets pass unread
IsHexLiteral(str) ==
  LET digits == IF Len(str) >= 2 /\ str[1] = "0" /\ str[2] \in {"x", "X"}
                THEN SubSeq(str, 3, Len(str)) ELSE str
  IN /\ digits # <<>>
     /\ \A i \in DOMAIN digits : IsHexDigit(digits[i])
WellFormed(line) ==
  /\ Len(line) >= 3
  /\ line[1] \in {"L", "S"}
  /\ line[2] = " "
  /\ IsHexLiteral(SubSeq(line, 3, Len(line)))
Ignored(line) == line = <<>> \/ line[1] = "#"
Malformed(line) == ~WellFormed(line) /\ ~Ignored(line)
Skipped == SelectSeq(diagnostics, LAMBDA d : d.msg = "Skipping invalid line")

(***************************************************************************)
(* C18: a trace line that is not `<op> <addr>` with op L or S and addr a    *)
(* hexadecimal literal is skipped with a diagnostic: the run has one       *)
(* diagnostic for each such line, the operations and the history are those *)
(* of the file without these lines, and no other access is made.           *)
(* This is the claim as stated; a line with another letter is run as a     *)
(* Store, and a line without an address is dropped without a diagnostic.   *)
(***************************************************************************)
C18_MalformedLinesSkipped ==
  (pc = "done" /\ file.open) =>
    LET good == SelectSeq(file.lines, WellFormed)
        bad == SelectSeq(file.lines, Malformed)
    IN /\ ops = ParseTraceFile([open |-> TRUE, lines |-> good]).ops
       /\ Len(history) = Len(good)
       /\ nops = Len(good)
       /\ Len(Skipped) = Len(bad)

(***************************************************************************)
(* C19: when the trace file cannot be opened the run has no operation and  *)
(* a diagnostic, makes no access, and prints the table with a row of       *)
(* hits 0, misses 0 and average latency 0 for every level of the list.     *)
(* This is the claim as stated; the run returns before the table.          *)
(***************************************************************************)
C19_UnavailableSourceReportsZeros ==
  (pc = "done" /\ ~file.open) =>
    /\ ops = <<>>
    /\ diagnostics # <<>>
    /\ history = <<>>
    /\ nops = 0
    /\ Len(report) = Len(hierarchy)
    /\ \A i \in DOMAIN report :
         /\ report[i].level = hierarchy[i]
         /\ report[i].hits = 0
         /\ report[i].misses = 0
         /\ report[i].avg_lat = 0

\* every access of the run so far is to a block no access before it was to
FreshStream ==
  \A i, j \in DOMAIN trace_addrs :
    i < j => \A l \in Levels :
               BlockOf(l, trace_addrs[i]) # BlockOf(l, trace_addrs[j])

(***************************************************************************)
(* C20: as long as every access of the run, Load or Store, is to a block   *)
(* never touched before, every access is answered by MainMemory: no cache  *)
(* level is the hit_level of an access, and the aggregation gives 0 hits   *)
(* to every cache level and as many hits as accesses to MainMemory.        *)
(***************************************************************************)
C20_StreamAlwaysMisses ==
  (pc \in {"loop", "done"} /\ ops # <<>> /\ FreshStream) =>
    LET agg == Aggregated(history)
    IN /\ \A i \in DOMAIN history :
            history[i] = [hit_level |-> "MainMemory",
                          total_cycles |-> CyclesTo(MemLevel)]
       /\ \A l \in Levels : agg[Name[l]].hits = 0
       /\ \A l \in Levels : agg[Name[l]].misses = Len(history)
       /\ agg["MainMemory"].hits = Len(history)
       /\ pc = "done" => Len(history) = Len(ops)

C20_Witness ==
  /\ pc = "done"
  /\ FreshStream
  /\ Len(history) = 3
  /\ ops[1].type = "S"
  /\ ops[2].type = "L"
  /\ ops[3].type = "L"
  /\ Aggregated(history)["MainMemory"].hits = 3
  /\ evictions_[1] = 1

(***************************************************************************)
(* C21: in the results table the average hit latency of a level is its     *)
(* total_latency divided by its hits, and 0 when the level has no hit; for *)
(* a level with hits it is the total_cycles of every access of the history *)
(* that the level satisfied.                                               *)
(***************************************************************************)
C21_AverageHitLatency ==
  pc = "done" =>
    \A i \in DOMAIN report :
      LET row == report[i]
          st == stats_db[row.level]
      IN /\ row.hits = st.hits
         /\ st.hits = 0 => row.avg_lat = 0
         /\ st.hits > 0 =>
              /\ row.avg_lat * st.hits = st.total_latency
              /\ \A j \in DOMAIN history :
                   history[j].hit_level = row.level =>
                     row.avg_lat = history[j].total_cycles

C21_Witness ==
  /\ pc = "done"
  /\ hierarchy = Name
  /\ report[1].hits = 0 /\ report[1].misses = 3 /\ report[1].avg_lat = 0
  /\ report[2].hits = 2 /\ report[2].misses = 1
  /\ report[2].avg_lat = CyclesTo(2)
  /\ report[3].hits = 1 /\ report[3].avg_lat = CyclesTo(MemLevel)

\* the hierarchy with every line of every set valid and clean, way w of a set
\* holding tag w
FullHier(rng) ==
  [Hier(rng) EXCEPT
     !.sets_ = [l \in Levels |->
                 [s \in 0..(Sets[l] - 1) |->
                   [w \in 0..(Ways[l] - 1) |->
                     [valid |-> TRUE, dirty |-> FALSE, tag |-> w]]]]]

(***************************************************************************)
(* C22: whatever OnHit and OnFill calls a policy object of geometry        *)
(* (sets, ways) has seen, GetVictim returns a way in 0 .. ways - 1 for     *)
(* every set, under LRU, FIFO and Random; and so a Fill on a set without a *)
(* free way, with the policy in that state, writes a way of the set.       *)
(***************************************************************************)
C22_VictimInRange ==
  /\ \A l \in Levels :
       \A set \in 0..(Sets[l] - 1), draw \in WaysOf(l) :
         GetVictim(policy_[l], set, draw) \in WaysOf(l)
  /\ lastOp.type = "GetVictim" => lastOp.way \in WaysOf(lastOp.level)
  /\ \A l \in Levels :
       \A set \in 0..(Sets[l] - 1), rng \in Rngs :
         LET f == Fill(FullHier(rng), l, set, Ways[l]).fills[1]
         IN /\ f.asked
            /\ f.way \in WaysOf(l)
            /\ DOMAIN f.after = WaysOf(l)
            /\ f.after[f.way].tag = Ways[l]

C22_Witness ==
  /\ Kind(1) = "FIFO"
  /\ nops = 3
  /\ policy_[1].next_victim_[0] = 1
  /\ lastOp = PolicyCall("GetVictim", 1, 0, 1)

\* way v of the set has the least timestamp, and is the lowest of the ways
\* that have it
OldestLowest(p, set, v) ==
  LET base == set * p.num_ways_
  IN \A w \in 0..(p.num_ways_ - 1) :
       /\ p.timestamps_[base + v] <= p.timestamps_[base + w]
       /\ p.timestamps_[base + w] = p.timestamps_[base + v] => v <= w

\* C29, step by step: what one call on an LRUPolicy object does
C29_Step ==
  Kind(1) = "LRU" =>
    /\ nops' = nops + 1 =>
         LET l == lastOp'.level
             s == lastOp'.set
             flat == (lastOp'.set * Ways[l]) + lastOp'.way
             p == policy_[l]
             q == policy_'[l]
         IN /\ lastOp'.type \in {"OnHit", "OnFill"}
            /\ q.set_counters_[s] = p.set_counters_[s] + 1
            /\ q.timestamps_[flat] = q.set_counters_[s]
            /\ \A i \in DOMAIN p.timestamps_ \ {flat} :
                 q.timestamps_[i] = p.timestamps_[i]
            /\ \A t \in DOMAIN p.set_counters_ \ {s} :
                 q.set_counters_[t] = p.set_counters_[t]
            /\ DOMAIN q.timestamps_ = DOMAIN p.timestamps_
            /\ \A k \in Levels \ {l} : policy_'[k] = policy_[k]
    /\ (nops' = nops /\ lastOp' # lastOp) =>
         /\ lastOp'.type = "GetVictim"
         /\ policy_' = policy_
         /\ lastOp'.way \in WaysOf(lastOp'.level)
         /\ OldestLowest(policy_[lastOp'.level], lastOp'.set, lastOp'.way)

(***************************************************************************)
(* C29: LRUPolicy::GetVictim returns a way whose timestamp is the least of *)
(* its set, the lowest such way when several have it, and changes nothing; *)
(* OnHit and OnFill each add one to the counter of the set and give the    *)
(* new counter value to the touched way, leaving every other timestamp and *)
(* every other set's counter as they were.                                 *)
(***************************************************************************)
C29_LRUStampsAndVictim == [][C29_Step]_vars

C29_Witness ==
  /\ Kind(1) = "LRU"
  /\ nops = 3
  /\ policy_[1].set_counters_[0] = 3
  /\ policy_[1].timestamps_[0] = 3
  /\ policy_[1].timestamps_[1] = 2
  /\ lastOp = PolicyCall("GetVictim", 1, 0, 1)

(***************************************************************************)
(* C23: whatever calls came before, MainMemory::Load and MainMemory::Store *)
(* return {"MainMemory", latency_} for every address, call no other level  *)
(* and change nothing; a call that reaches MainMemory is satisfied there.  *)
(***************************************************************************)
C23_MemoryAlwaysAnswers ==
  /\ LET h == Hier(AnyRng)
         answer == [h |-> h,
                    res |-> [hit_level |-> "MainMemory",
                             total_cycles |-> latency_]]
     IN \A addr \in Addrs :
          /\ Load(h, MemLevel, addr) = answer
          /\ Store(h, MemLevel, addr) = answer
  /\ \A j \in DOMAIN calls :
       /\ calls[j].level <= MemLevel
       /\ calls[j].level = MemLevel => calls[j].hit
  /\ res.hit_level = "MainMemory" => res.total_cycles = CyclesTo(MemLevel)

C23_Witness ==
  /\ nops >= 3
  /\ [hit_level |-> "MainMemory", total_cycles |-> CyclesTo(MemLevel)] \in seen
  /\ \E i, j \in DOMAIN calls :
       /\ calls[i].level = MemLevel /\ calls[i].type = "Load"
       /\ calls[j].level = MemLevel /\ calls[j].type = "Store"

\* the calls of the last top-level call that were made on level k
CallsOn(k) == {j \in DOMAIN calls : calls[j].level = k}
LoadCallsOn(k) == {j \in CallsOn(k) : calls[j].type = "Load"}

(***************************************************************************)
(* C24: a top-level Load or Store returns a result after finitely many     *)
(* nested calls, write-backs and write-allocate Loads included.  Every     *)
(* nested call is made by a cache level on the level right below it, so    *)
(* the levels of the calls in progress go strictly down and end at         *)
(* MainMemory; a level is asked to Load once for each miss of the level    *)
(* above and to Store once for each written block that level replaces,     *)
(* which bounds the calls on level k by 2^(k-1).                           *)
(***************************************************************************)
C24_AccessTerminates ==
  /\ nops > 0 => \E k \in 1..MemLevel : res.hit_level = Name[k]
  /\ \A j \in DOMAIN calls :
       /\ calls[j].level \in 2..MemLevel
       /\ j = 1 => calls[j].level = 2
       /\ j > 1 => calls[j].level <= calls[j - 1].level + 1
  /\ Cardinality(LoadCallsOn(2)) =
       IF nops > 0 /\ res.hit_level # Name[1] THEN 1 ELSE 0
  /\ \A k \in 2..NumLevels :
       Cardinality(LoadCallsOn(k + 1)) =
         Cardinality({j \in CallsOn(k) : ~calls[j].hit})
  /\ \A k \in 1..NumLevels :
       /\ Cardinality(StoreCallsOn(k + 1)) =
            Cardinality(DirtyReplacementsAt(k))
       /\ Cardinality(CallsOn(k + 1)) <= 2 ^ k
       /\ Cardinality({i \in DOMAIN fills : fills[i].level = k})
            <= FillsPerCall[k]

C24_Witness ==
  /\ Len(calls) = 4
  /\ LoadCallsOn(MemLevel) # {}
  /\ StoreCallsOn(MemLevel) # {}
  /\ StoreCallsOn(2) # {}

PowerOfTwo(n) == \E k \in 0..n : 2 ^ k = n
Misconfigured(g) == ~PowerOfTwo(g.Sets) \/ ~PowerOfTwo(g.BlockSize)

(***************************************************************************)
(* C25: a Cache whose Sets or BlockSize is not a power of two is rejected  *)
(* as a configuration error when it is constructed: the construction does  *)
(* not come through, an error is reported, and no Load or Store is ever    *)
(* executed on it.                                                         *)
(***************************************************************************)
C25_MisconfigurationRejected ==
  Misconfigured(geometry) =>
    /\ pc # "ready"
    /\ nops = 0
    /\ pc # "construct" => diagnostics # <<>>

\* the block numbers level l holds: a valid line of set s with tag t holds
\* block t * Sets + s
HeldBlocks(l) ==
  {(sets_[l][x[1]][x[2]].tag * Sets[l]) + x[1] :
     x \in {y \in (0..(Sets[l] - 1)) \X WaysOf(l) : sets_[l][y[1]][y[2]].valid}}

(***************************************************************************)
(* C26: two addresses have the same set_idx and tag at a level exactly     *)
(* when they have the same block number addr / BlockSize; the tag lookup   *)
(* of Load and Store finds a line for an address exactly when the level    *)
(* holds the block of the address, so once an access has brought a block   *)
(* in, every address of the block hits.                                    *)
(***************************************************************************)
C26_HitIffBlockResident ==
  /\ nops = 0 =>
       \A l \in Levels :
         \A a, b \in Addrs :
           (SetIdx(l, a) = SetIdx(l, b) /\ TagOf(l, a) = TagOf(l, b))
             <=> BlockOf(l, a) = BlockOf(l, b)
  /\ \A l \in Levels :
       LET held == HeldBlocks(l)
       IN \A a \in Addrs :
            (LookupFrom(sets_[l][SetIdx(l, a)], Ways[l], TagOf(l, a), 0)
               < Ways[l])
              <=> BlockOf(l, a) \in held
  /\ nops > 0 =>
       \A b \in Addrs :
         BlockOf(1, b) = BlockOf(1, lastOp.addr) =>
           /\ BlockOf(1, b) \in HeldBlocks(1)
           /\ Load(Hier(AnyRng), 1, b).res.hit_level = Name[1]

C26_Witness ==
  /\ nops = 2
  /\ lastOp = [type |-> "Load", addr |-> 1]
  /\ res.hit_level = "L1"
  /\ stored[1][0][0] = {0}
  /\ HeldBlocks(1) = {0}
  /\ hits_[1] = 1
  /\ misses_[1] = 1

(***************************************************************************)
(* C27: a Fill on a set that has an invalid line takes the lowest invalid  *)
(* way without asking the policy for a victim, makes no Store on the next  *)
(* level and replaces no valid line; when it is done that line is valid,   *)
(* holds the new tag and is not dirty, and the other lines of the set are  *)
(* as they were.                                                           *)
(***************************************************************************)
C27_ColdFillTakesLowestInvalidWay ==
  \A i \in DOMAIN fills :
    LET f == fills[i]
        invalid == {w \in WaysOf(f.level) : ~f.before[w].valid}
    IN invalid # {} =>
         /\ f.way \in invalid
         /\ \A w \in invalid : f.way <= w
         /\ ~f.asked
         /\ ~f.wroteback
         /\ f.evict_addr = -1
         /\ f.after[f.way] = [valid |-> TRUE, dirty |-> FALSE, tag |-> f.tag]
         /\ \A w \in WaysOf(f.level) \ {f.way} : f.after[w] = f.before[w]
         /\ NumValid(f.after, f.level) = NumValid(f.before, f.level) + 1

C27_Witness ==
  /\ Len(fills) = 2
  /\ fills[2].level = 1
  /\ fills[2].way = 1
  /\ fills[2].before[0].valid
  /\ fills[2].before[0].dirty
  /\ ~fills[2].before[1].valid
  /\ ~fills[2].asked
  /\ StoreCallsOn(2) = {}
  /\ evictions_[1] = 0

(***************************************************************************)
(* C28: under FIFOPolicy every Fill of a set, into a free way or over a    *)
(* victim, writes the way next_victim_ named when the Fill began, so that  *)
(* next_victim_ of a set is the number of Fills the set has had modulo the *)
(* number of ways; OnHit and GetVictim leave next_victim_ as it is.        *)
(***************************************************************************)
C28_FIFOPointerCountsFills ==
  Kind(1) = "FIFO" =>
    /\ \A l \in Levels :
         \A s \in 0..(Sets[l] - 1) :
           /\ policy_[l].next_victim_[s] = nfills[l][s] % Ways[l]
           /\ FIFOGetVictim(policy_[l], s) = policy_[l].next_victim_[s]
           /\ \A w \in WaysOf(l) : OnHit(policy_[l], s, w) = policy_[l]
    /\ \A i \in DOMAIN fills :
         LET f == fills[i]
         IN /\ f.way = f.policy.next_victim_[f.set]
            /\ f.policy.next_victim_[f.set] = (f.nth - 1) % Ways[f.level]

C28_Witness ==
  /\ Kind(1) = "FIFO"
  /\ hits_[1] >= 1
  /\ nfills[1][0] = 3
  /\ policy_[1].next_victim_[0] = 1
  /\ Len(fills) = 2
  /\ fills[2].level = 1
  /\ fills[2].asked
  /\ fills[2].way = 0
  /\ fills[2].policy.next_victim_[0] = 0

\* the number of valid lines the Fills of sets 0 .. s of level l have
\* replaced: a set's lines stay valid, so every Fill after its first Ways
\* replaces one
RECURSIVE ReplacementsUpTo(_, _)
ReplacementsUpTo(l, s) ==
  IF s < 0 THEN 0
  ELSE (IF nfills[l][s] > Ways[l] THEN nfills[l][s] - Ways[l] ELSE 0)
         + ReplacementsUpTo(l, s - 1)

(***************************************************************************)
(* C30: every Fill of a set whose ways are all valid counts one eviction   *)
(* at its level, the replaced line dirty or clean: evictions_ of a level   *)
(* is the number of valid lines the level has replaced.                    *)
(***************************************************************************)
C30_EvictionsCountReplacements ==
  /\ \A l \in Levels : evictions_[l] = ReplacementsUpTo(l, Sets[l] - 1)
  /\ \A l \in Levels :
       \A i \in DOMAIN fills :
         (fills[i].level = l /\ Replaced(fills[i])) => evictions_[l] > 0

(***************************************************************************)
(* C31: when a miss replaces a dirty line, the next level is first asked   *)
(* to Load the missed block and then to Store the victim's block, and the  *)
(* write-back address comes from the tag the line held, dirty, before the  *)
(* Fill overwrote it.  (The write-back may then replace, in the next       *)
(* level, the block the Load has just brought there: C31_Witness.)         *)
(***************************************************************************)
C31_LoadBeforeWriteBack ==
  \A n \in DOMAIN fills :
    LET f == fills[n]
        l == f.level
    IN f.wroteback =>
         /\ f.before[f.way].valid
         /\ f.before[f.way].dirty
         /\ f.before[f.way].tag # f.tag
         /\ f.evict_addr = EvictAddr(l, f.before[f.way].tag, f.set)
         /\ f.after[f.way] = [valid |-> TRUE, dirty |-> FALSE, tag |-> f.tag]
         /\ \E i, j \in DOMAIN calls :
              /\ i < j
              /\ calls[i].level = l + 1
              /\ calls[i].type = "Load"
              /\ SetIdx(l, calls[i].addr) = f.set
              /\ TagOf(l, calls[i].addr) = f.tag
              /\ calls[j].level = l + 1
              /\ calls[j].type = "Store"
              /\ calls[j].addr = f.evict_addr
              /\ \A k \in (i + 1)..(j - 1) : calls[k].level > l + 1

C31_Witness ==
  /\ lastOp.type = "Load"
  /\ Len(fills) = 3
  /\ fills[1].level = 2
  /\ fills[1].tag = TagOf(2, lastOp.addr)
  /\ fills[2].level = 2
  /\ fills[2].set = fills[1].set
  /\ fills[2].before[fills[2].way].tag = fills[1].tag
  /\ fills[3].level = 1
  /\ fills[3].wroteback
  /\ Resident(sets_, 1, lastOp.addr)
  /\ ~Resident(sets_, 2, lastOp.addr)

\* the lesser of two numbers
Min(a, b) == IF a < b THEN a ELSE b

(***************************************************************************)
(* C32: in every set the valid lines are the ways 0 .. k-1 for some k, and *)
(* a valid line never becomes invalid again: no Fill leaves a line invalid *)
(* that was valid before it, and the number of valid lines of a set is the *)
(* number of Fills the set has had, up to the number of ways.              *)
(***************************************************************************)
C32_ValidLinesFormPrefix ==
  /\ \A l \in Levels :
       \A s \in 0..(Sets[l] - 1) :
         /\ \A w \in WaysOf(l) :
              (w > 0 /\ sets_[l][s][w].valid) => sets_[l][s][w - 1].valid
         /\ NumValid(sets_[l][s], l) = Min(nfills[l][s], Ways[l])
  /\ \A n \in DOMAIN fills :
       LET f == fills[n]
       IN /\ \A w \in WaysOf(f.level) :
               /\ f.before[w].valid => f.after[w].valid
               /\ (w > 0 /\ f.after[w].valid) => f.after[w - 1].valid
          /\ f.after[f.way].valid
          /\ NumValid(f.before, f.level) = Min(f.nth - 1, Ways[f.level])

C32_Witness ==
  /\ nops = 3
  /\ hits_[1] = 2
  /\ sets_[1][0][0].valid
  /\ sets_[1][0][0].dirty
  /\ ~sets_[1][0][1].valid
  /\ nfills[1][0] = 1
  /\ sets_[2][0][0].valid
  /\ ~sets_[2][1][0].valid

\* the way of the top level that holds the block of addr
WayOf(addr) ==
  LookupFrom(sets_[1][SetIdx(1, addr)], Ways[1], TagOf(1, addr), 0)

(***************************************************************************)
(* C33: a dirty line is valid, and a valid line is dirty exactly when a    *)
(* Store to an address of its block has been executed at its level since   *)
(* the line was filled: Fill leaves the line clean, a Load leaves it as it *)
(* is, and Store marks it, on a hit and after the Fill of a miss.          *)
(***************************************************************************)
C33_DirtyIffStoredSinceFill ==
  /\ \A l \in Levels :
       \A s \in 0..(Sets[l] - 1) :
         \A w \in WaysOf(l) :
           LET line == sets_[l][s][w]
           IN /\ line.dirty => line.valid
              /\ line.valid => (line.dirty <=> stored[l][s][w] # {})
              /\ \A a \in stored[l][s][w] :
                   /\ line.valid
                   /\ SetIdx(l, a) = s
                   /\ TagOf(l, a) = line.tag
  /\ \A n \in DOMAIN fills : ~fills[n].after[fills[n].way].dirty
  /\ nops > 0 =>
       LET line == sets_[1][SetIdx(1, lastOp.addr)][WayOf(lastOp.addr)]
       IN /\ WayOf(lastOp.addr) < Ways[1]
          /\ lastOp.type = "Store" =>
               /\ line.dirty
               /\ lastOp.addr
                    \in stored[1][SetIdx(1, lastOp.addr)][WayOf(lastOp.addr)]
          /\ (lastOp.type = "Load" /\ res.hit_level # Name[1]) => ~line.dirty

C33_Witness ==
  /\ nops = 3
  /\ lastOp = [type |-> "Load", addr |-> 2]
  /\ sets_[1][0][0] = [valid |-> TRUE, dirty |-> TRUE, tag |-> 0]
  /\ stored[1][0][0] = {0, 1}
  /\ sets_[1][0][1] = [valid |-> TRUE, dirty |-> FALSE, tag |-> 1]
  /\ stored[1][0][1] = {}
  /\ \A s \in 0..(Sets[2] - 1) : ~sets_[2][s][0].dirty

\* the block numbers the lines lines_ of level l hold
HeldIn(lines_, l) ==
  {(lines_[l][x[1]][x[2]].tag * Sets[l]) + x[1] :
     x \in {y \in (0..(Sets[l] - 1)) \X WaysOf(l) :
              lines_[l][y[1]][y[2]].valid}}

\* C34, step by step: what one top-level call does to the blocks a level holds
C34_Step ==
  /\ \A l \in Levels :
       \A b \in HeldIn(sets_, l) :
         \/ b \in HeldIn(sets_', l)
         \/ \E n \in DOMAIN fills' :
              LET f == fills'[n]
              IN /\ f.level = l
                 /\ f.set = b % Sets[l]
                 /\ f.asked
                 /\ AllValid(f.before, l)
                 /\ f.before[f.way].tag = b \div Sets[l]
                 /\ f.tag # b \div Sets[l]
  /\ nops' = nops + 1 =>
       /\ BlockOf(1, lastOp'.addr) \in HeldIn(sets_, 1) =>
            /\ res'.hit_level = Name[1]
            /\ fills' = <<>>
            /\ HeldIn(sets_', 1) = HeldIn(sets_, 1)
       /\ (calls' # <<>> /\ BlockOf(2, calls'[1].addr) \in HeldIn(sets_, 2)) =>
            /\ calls'[1].hit
            /\ res'.hit_level = Name[2]

(***************************************************************************)
(* C34: a block a level holds stays there until a Fill of its set, made    *)
(* with every way of the set valid, takes its way as the victim; calls on  *)
(* other sets, hits and Fills of invalid lines remove nothing, and an      *)
(* access to a block the level holds hits there.                           *)
(***************************************************************************)
C34_ResidentUntilVictim == [][C34_Step]_vars

C34_Witness ==
  /\ nops = 4
  /\ lastOp = [type |-> "Load", addr |-> 1]
  /\ res.hit_level = "L1"
  /\ hits_[1] = 2
  /\ nfills[1][0] = 2
  /\ HeldIn(sets_, 1) = {0, 1}
  /\ HeldIn(sets_, 2) = {0, 1}
  /\ sets_[1][0][0].dirty

(***************************************************************************)
(* C35: when every hit_level of the history is in the list of level names, *)
(* the counters the aggregation has after any number of entries satisfy:   *)
(* hits + misses of the first name is the number of entries gone through,  *)
(* hits + misses of every later name is the misses of the name before it,  *)
(* and the last name has no miss.                                          *)
(***************************************************************************)
C35_CountersChain ==
  (\A j \in DOMAIN history : PosIn(hierarchy, history[j].hit_level) > 0) =>
    /\ stats_db[hierarchy[1]].hits + stats_db[hierarchy[1]].misses = agg_pos
    /\ \A k \in 2..Len(hierarchy) :
         stats_db[hierarchy[k]].hits + stats_db[hierarchy[k]].misses
           = stats_db[hierarchy[k - 1]].misses
    /\ stats_db[hierarchy[Len(hierarchy)]].misses = 0
    /\ pc = "done" => agg_pos = Len(history)

C35_Witness ==
  /\ pc = "done"
  /\ hierarchy = <<"L1", "L2", "L3", "MainMemory">>
  /\ Len(history) = 4
  /\ stats_db["L1"] = [hits |-> 1, misses |-> 3, total_latency |-> CyclesTo(1)]
  /\ stats_db["L2"].hits = 1 /\ stats_db["L2"].misses = 2
  /\ stats_db["L3"].hits = 0 /\ stats_db["L3"].misses = 2
  /\ stats_db["MainMemory"].hits = 2 /\ stats_db["MainMemory"].misses = 0

\* the operations of the trace that have been run are all loads
LoadsOnly == \A i \in 1..Len(history) : ops[i].type = "L"

(***************************************************************************)
(* C36: while a trace has run only Loads, no line of any level is dirty,   *)
(* no Store has been called on a level or on MainMemory, and for every     *)
(* cache level the hits and misses that the aggregation computes from the  *)
(* history are the level's own hits_ and misses_.  With Stores the level's *)
(* own counters are never below the aggregated ones, and the top level's   *)
(* counters are the aggregated ones.                                       *)
(***************************************************************************)
C36_LoadsOnlyCountersAgree ==
  (pc \in {"loop", "done"} /\ ops # <<>>) =>
    LET agg == Aggregated(history)
    IN /\ \A l \in Levels :
            /\ agg[Name[l]].hits <= hits_[l]
            /\ agg[Name[l]].misses <= misses_[l]
       /\ agg[Name[1]].hits = hits_[1]
       /\ agg[Name[1]].misses = misses_[1]
       /\ LoadsOnly =>
            /\ \A l \in Levels : \A s \in 0..(Sets[l] - 1) : \A w \in WaysOf(l) :
                 ~sets_[l][s][w].dirty
            /\ \A j \in DOMAIN calls : calls[j].type = "Load"
            /\ nops > 0 => lastOp.type = "Load"
            /\ \A l \in Levels : evictions_[l] = 0
            /\ \A l \in Levels :
                 /\ agg[Name[l]].hits = hits_[l]
                 /\ agg[Name[l]].misses = misses_[l]

C36_Witness ==
  /\ pc = "done"
  /\ Len(history) = 4
  /\ LoadsOnly
  /\ history[4].hit_level = "L2"
  /\ stats_db["L2"].hits = 1 /\ hits_[2] = 1
  /\ stats_db["L2"].misses = 3 /\ misses_[2] = 3
  /\ stats_db["L1"].misses = 4 /\ misses_[1] = 4
  /\ nfills[1][0] = 4

\* the end of a run with Stores where L2 counted more accesses than the
\* aggregation gives it (a reachable state: S 0x0, L 2, L 0x4)
StoresExceed ==
  /\ pc = "done"
  /\ hits_[2] + misses_[2] > stats_db["L2"].hits + stats_db["L2"].misses

(***************************************************************************)
(* C37: the LRUPolicy with the flattened timestamp array and the LRUPolicy *)
(* with one vector per set, given the same OnHit and OnFill calls from     *)
(* construction on, return the same way from GetVictim for every set; they *)
(* hold the same timestamp for every way and the same counter for every    *)
(* set.                                                                    *)
(***************************************************************************)
C37_LRUImplementationsAgree ==
  \A l \in Levels :
    policy_[l].kind = "LRU" =>
      \A set \in 0..(Sets[l] - 1) :
        /\ LRUGetVictim(policy_[l], set) = NestedGetVictim(nested_policy_[l], set)
        /\ policy_[l].set_counters_[set] = nested_policy_[l].set_counters_[set]
        /\ \A way \in 0..(Ways[l] - 1) :
             policy_[l].timestamps_[(set * Ways[l]) + way]
               = nested_policy_[l].last_access_time_[set][way]

C37_Witness ==
  /\ policy_[1].kind = "LRU"
  /\ nops = 4
  /\ lastOp = PolicyCall("GetVictim", 1, 0, 1)
  /\ NestedGetVictim(nested_policy_[1], 0) = 1
  /\ nested_policy_[1].last_access_time_[0][0] = 3
  /\ nested_policy_[1].last_access_time_[0][1] = 2
  /\ nested_policy_[2].last_access_time_[1][0] = 1
  /\ NestedGetVictim(nested_policy_[2], 1) = 0

\* the timestamps LRUPolicy p holds for the ways of a set are greater than 0
\* and differ from way to way
StampsDistinct(p, set) ==
  LET ts == [w \in 0..(p.num_ways_ - 1) |->
               p.timestamps_[(set * p.num_ways_) + w]]
  IN /\ \A w \in DOMAIN ts : ts[w] > 0
     /\ \A v, w \in DOMAIN ts : v # w => ts[v] # ts[w]

(***************************************************************************)
(* C38: when a Fill of a level with an LRUPolicy asks GetVictim, all ways  *)
(* of the set being valid, the timestamps of the set's ways are greater    *)
(* than 0 and pairwise distinct, and the way it is given is the only one   *)
(* with the least timestamp.  The same holds of every set whose ways are   *)
(* all valid, which is what the next Fill of the set will find.            *)
(***************************************************************************)
C38_VictimStampsDistinct ==
  /\ \A n \in DOMAIN fills :
       LET f == fills[n]
           p == f.policy
       IN (f.asked /\ p.kind = "LRU") =>
            /\ AllValid(f.before, f.level)
            /\ StampsDistinct(p, f.set)
            /\ f.way = LRUGetVictim(p, f.set)
            /\ \A w \in WaysOf(f.level) :
                 w # f.way =>
                   p.timestamps_[(f.set * p.num_ways_) + w]
                     > p.timestamps_[(f.set * p.num_ways_) + f.way]
  /\ \A l \in Levels :
       policy_[l].kind = "LRU" =>
         \A set \in 0..(Sets[l] - 1) :
           AllValid(sets_[l][set], l) => StampsDistinct(policy_[l], set)

C38_Witness ==
  /\ nops = 4
  /\ lastOp = [type |-> "Load", addr |-> 4]
  /\ \E n \in DOMAIN fills :
       /\ fills[n].level = 1
       /\ fills[n].asked
       /\ fills[n].policy.kind = "LRU"
       /\ fills[n].policy.timestamps_[0] = 3
       /\ fills[n].policy.timestamps_[1] = 2
       /\ fills[n].way = 1
  /\ \E n \in DOMAIN fills :
       /\ fills[n].level = 2
       /\ fills[n].asked
       /\ fills[n].policy.timestamps_[0] = 1

=============================================================================
